---------------------------- MODULE Spec2Model ----------------------------
(***************************************************************************)
(* A state-machine model of regular-rag: the engine facade's connection    *)
(* lifecycle (core/RagEngine, db/index), the chatbot request pipeline      *)
(* (services/ChatbotService), hybrid search with Reciprocal Rank Fusion    *)
(* (repositories/RagRepository) and document ingestion                     *)
(* (RagEngine.ingestDocument).                                             *)
(*                                                                         *)
(* Each part has its own specification (SpecEngine, SpecChat, SpecHybrid,  *)
(* SpecIngest); the variables of the other parts are held at their idle    *)
(* values.                                                                 *)
(***************************************************************************)
EXTENDS Integers, Sequences, FiniteSets, TLC

VARIABLES
    \* ---- engine facade (RagEngine.create / close) ----
    config,        \* per engine: the RagEngineConfig variant it was created from
    connection,    \* per engine: the DbConnection, or Undefined before it exists
    enginePc,      \* per engine: position inside create(), or ready / rejected
    createError,   \* per engine: the error create() rejects with, or NoError
    endCalls,      \* per engine: number of end() calls made on its pg handle
    closeCalls,    \* per engine: number of close() calls made on the engine
    \* ---- hybrid search (RagRepository.hybridSearch) ----
    hybridPc,      \* "searching" while the two queries run, then "merged"
    hybridTopK,    \* the topK argument
    vectorResults, \* ids returned by findByVector in rank order, or Pending
    textResults,   \* ids returned by findByText in rank order, or Pending
    hybridResult,  \* the RagResult list hybridSearch returns
    \* ---- chatbot pipeline (ChatbotService.processRagRequest) ----
    requests,      \* per request: arguments, locals, position, call log
    chatbotCache,  \* the rows of the chatbot_cache table
    \* ---- ingestion (RagEngine.ingestDocument) ----
    ingestPc,      \* position inside ingestDocument, or done / failed
    content,       \* the content argument
    embeddingInput,\* the text sent to the embedding provider, once computed
    embedding,     \* length of the vector the provider returned, once it has
    documents,     \* the rows of the rag_documents table
    uuids,         \* number of ids randomUUID() has handed out
    graphWrites,   \* number of node and edge upserts made by the graph build
    ingestResult,  \* what ingestDocument resolved or rejected with
    \* ---- graph construction (KnowledgeGraphService.buildGraphFromDocument) ----
    buildPc,          \* position inside buildGraphFromDocument, or done / failed
    extraction,       \* what extractor.extract resolves with: entities, relations
    embeddingResults, \* per entity: the length of its embedding, or None
    nameToId,         \* the Map from lowercased entity name to node id
    knowledgeNodes,   \* the rows of the knowledge_nodes table
    knowledgeEdges,   \* the rows of the knowledge_edges table
    nodeCalls,        \* the upsertNode invocations, in order
    edgeCalls,        \* the upsertEdge invocations, in order
    nextEntity,       \* the loop index i of the node loop (from 1)
    nextRelation,     \* the position of the edge loop (from 1)
    nodesCreated,     \* the counter of the same name
    edgesCreated,     \* the counter of the same name
    buildResult,      \* what buildGraphFromDocument resolved or rejected with
    \* ---- graph queries (KnowledgeGraphRepository.traverseBatch / getSubgraph) ----
    queryPc,        \* position inside getSubgraph, or done / failed
    nodeIds,        \* the seed ids argument
    maxDepth,       \* the maxDepth argument
    traversal,      \* the rows traverseBatch returned
    subgraphNodes,  \* the rows of getSubgraph's node fetch
    subgraphEdges,  \* the rows of getSubgraph's edge fetch
    storeModified,  \* another request wrote to the graph tables during the call
    writesLeft,     \* writes other requests may still make during the call
    \* ---- path finding (KnowledgeGraphRepository.findPaths) ----
    pathsPc,        \* position inside findPaths, or done / failed
    fromId,         \* the fromId argument
    toId,           \* the toId argument
    pathDepth,      \* the maxDepth argument
    pathRows,       \* the rows of the path_search query, in order
    paths,          \* the PathResult list findPaths returns
    \* ---- plan normalization (normalizeSearchPlan) ----
    planArg,        \* the plan normalizeSearchPlan is called with
    planResult,     \* None before the call, then Some(returned plan)
    \* ---- cache key (processRagRequest lines 71-80, stableStringify) ----
    keyArgs,        \* two requests' {messages, context, plan}, as JS values
    cacheKeys,      \* per request: None, then Some(its cache key)
    \* ---- cache statements (CacheRepository.save / incrementHitCount) ----
    cacheCalls,     \* per caller: the statement it has in flight, if any
    statements,     \* number of statements issued so far
    hitsApplied,    \* per hash: increments completed on its row
    \* ---- provider transport (AzureOpenAiProvider.fetchWithRetry) ----
    retryPc,        \* position inside fetchWithRetry, or returned / thrown
    attempt,        \* the loop counter `attempt`
    requestInit,    \* the `init` argument: the request body
    fetchCalls,     \* the fetch calls made so far: body sent and outcome
    sleeps,         \* the sleep(ms) calls made so far
    retryResult,    \* None, then Some(response returned or error thrown)
    \* ---- chunking (GraphExtractor.splitIntoChunks) ----
    chunkText,      \* the text argument
    chunks,         \* None before the call, then Some(returned chunk list)
    \* ---- extraction (GraphExtractor.extract) ----
    extractPc,      \* position inside extract, or returned / thrown
    chunkCount,     \* number of chunks splitIntoChunks gave
    chunkReplies,   \* the chat completions received so far, one per chunk
    allEntities,    \* the local allEntities
    allRelations,   \* the local allRelations
    extractResult   \* None, then Some(the ExtractionResult returned)

engineVars == <<config, connection, enginePc, createError, endCalls, closeCalls>>
hybridVars == <<hybridPc, hybridTopK, vectorResults, textResults, hybridResult>>

chatVars == <<requests, chatbotCache>>

ingestVars == <<ingestPc, content, embeddingInput, embedding, documents, uuids,
                graphWrites, ingestResult>>

buildCallVars == <<buildPc, extraction, embeddingResults, nameToId, nodeCalls,
                   edgeCalls, nextEntity, nextRelation, nodesCreated,
                   edgesCreated, buildResult>>
storeVars == <<knowledgeNodes, knowledgeEdges>>
buildVars == <<buildCallVars, storeVars>>
queryVars == <<queryPc, nodeIds, maxDepth, traversal, subgraphNodes,
               subgraphEdges, storeModified, writesLeft>>

pathVars == <<pathsPc, fromId, toId, pathDepth, pathRows, paths>>

planVars == <<planArg, planResult>>

keyVars == <<keyArgs, cacheKeys>>

cacheVars == <<cacheCalls, statements, hitsApplied>>

retryVars == <<retryPc, attempt, requestInit, fetchCalls, sleeps, retryResult>>

chunkVars == <<chunkText, chunks>>

extractVars == <<extractPc, chunkCount, chunkReplies, allEntities, allRelations,
                 extractResult>>

vars == <<engineVars, hybridVars, chatVars, ingestVars, buildVars, queryVars,
          pathVars, planVars, keyVars, cacheVars, retryVars, chunkVars,
          extractVars>>

\* What the actions of one part leave alone: the variables of the others.
notEngineVars == <<hybridVars, chatVars, ingestVars, buildVars, queryVars, pathVars,
    planVars, keyVars, cacheVars,
    retryVars, chunkVars, extractVars>>
notHybridVars == <<engineVars, chatVars, ingestVars, buildVars, queryVars, pathVars,
    planVars, keyVars, cacheVars,
    retryVars, chunkVars, extractVars>>
notChatVars == <<engineVars, hybridVars, ingestVars, buildVars, queryVars, pathVars,
    planVars, keyVars, cacheVars,
    retryVars, chunkVars, extractVars>>
notIngestVars == <<engineVars, hybridVars, chatVars, buildVars, queryVars, pathVars,
    planVars, keyVars, cacheVars,
    retryVars, chunkVars, extractVars>>
notBuildVars == <<engineVars, hybridVars, chatVars, ingestVars, queryVars, pathVars,
    planVars, keyVars, cacheVars,
    retryVars, chunkVars, extractVars>>
notQueryVars == <<engineVars, hybridVars, chatVars, ingestVars, buildCallVars,
                  pathVars, planVars, keyVars, cacheVars,
    retryVars, chunkVars, extractVars>>
notPathVars == <<engineVars, hybridVars, chatVars, ingestVars, buildVars, queryVars,
                 planVars, keyVars, cacheVars,
    retryVars, chunkVars, extractVars>>
notPlanVars == <<engineVars, hybridVars, chatVars, ingestVars, buildVars, queryVars,
                 pathVars, keyVars, cacheVars,
    retryVars, chunkVars, extractVars>>
notKeyVars == <<engineVars, hybridVars, chatVars, ingestVars, buildVars, queryVars,
                pathVars, planVars, cacheVars,
    retryVars, chunkVars, extractVars>>
notCacheVars == <<engineVars, hybridVars, requests, ingestVars, buildVars, queryVars,
                  pathVars, planVars, keyVars,
    retryVars, chunkVars, extractVars>>
notRetryVars == <<engineVars, hybridVars, chatVars, ingestVars, buildVars, queryVars,
                  pathVars, planVars, keyVars, cacheVars, chunkVars, extractVars>>
notChunkVars == <<engineVars, hybridVars, chatVars, ingestVars, buildVars, queryVars,
                  pathVars, planVars, keyVars, cacheVars, retryVars, extractVars>>
notExtractVars == <<engineVars, hybridVars, chatVars, ingestVars, buildVars, queryVars,
                    pathVars, planVars, keyVars, cacheVars, retryVars, chunkVars>>

\* `let connection: DbConnection | undefined`: the value before assignment.
\* Reading ownsConnection through `connection?.` then gives a falsy value.
Undefined == [pgClient |-> "undefined", ownsConnection |-> FALSE]
NoError == "none"

(***************************************************************************)
(*                      ENGINE FACADE: create / close                      *)
(***************************************************************************)

\* Number of engines created side by side (each with its own handle).
NumEngines == 2
\* Number of close() calls a host may make on one engine.
MaxClose == 2

Engines == 1..NumEngines

\* db/schema.ts: the vector dimension of the store.
EMBEDDING_DIMENSIONS == 1536

\* The two RagEngineConfig variants.  An external handle is a pg.Pool or a
\* pg.Client, and a Client may already have been connected by the host.
Configs ==
    {[kind |-> "databaseUrl", handle |-> "Pool", connected |-> FALSE]}
    \cup [kind : {"pgClient"}, handle : {"Pool", "Client"}, connected : BOOLEAN]

\* Outcomes of the provider's createEmbedding on the probe string: it throws,
\* or it returns a vector of this length.
ProbeOutcomes ==
    {[throws |-> TRUE, length |-> 0]}
    \cup [throws : {FALSE}, length : {3, EMBEDDING_DIMENSIONS}]

\* db/index.ts createDbConnection: a new pool, owned by the package.
createDbConnection(cfg) ==
    [pgClient |-> "Pool", ownsConnection |-> TRUE]

\* db/index.ts wrapExternalClient: the host's handle, not owned.
wrapExternalClient(cfg) ==
    [pgClient |-> cfg.handle, ownsConnection |-> FALSE]

\* db/index.ts connectDb: the outcomes of connecting the handle of cfg.
\*   Pool:   acquire + release succeeds, or connect() throws.
\*   Client: connect() succeeds; or throws "already connected", which is
\*           swallowed; or throws another error, which is rethrown.
AlreadyConnected == "Client has already been connected"

\* What pg's connect() does on the handle: a Pool hands out a client or
\* fails; a fresh Client connects or fails; a Client the host has already
\* connected throws AlreadyConnected.
PgConnectOutcomes(pgClient, cfg) ==
    IF pgClient = "Pool" THEN {"ok", "connection failed"}
    ELSE IF cfg.connected THEN {AlreadyConnected}
    ELSE {"ok", "connection failed"}

\* db/index.ts connectDb: "ok" when it returns, else the error it throws.
\* A Pool is probed (connect + release); on a Client the "already
\* connected" error is swallowed and every other error rethrown.
connectDb(pgClient, raw) ==
    IF pgClient = "Pool" THEN raw
    ELSE IF raw = AlreadyConnected THEN "ok"
    ELSE raw

\* `"end" in pgClient && typeof pgClient.end === "function"`: pg.Pool and
\* pg.Client both define end().
HasEnd(pgClient) == pgClient \in {"Pool", "Client"}

\* A mutant of CatchEndsConnection: the catch block forgets the release.
CatchEndsConnection_Never(conn) == FALSE

\* The guard of the end() call in create()'s catch block (index.ts 166-170).
CatchEndsConnection(conn) ==
    /\ conn # Undefined
    /\ conn.ownsConnection
    /\ HasEnd(conn.pgClient)

\* A mutant of CloseEndsConnection: close() ends whatever handle it holds.
CloseEndsConnection_IgnoresOwnership(conn) == HasEnd(conn.pgClient)

\* The guard of the end() call in close() (index.ts 247-249).
CloseEndsConnection(conn) ==
    /\ conn.ownsConnection
    /\ HasEnd(conn.pgClient)

EngineInit ==
    /\ config \in [Engines -> Configs]
    /\ connection = [e \in Engines |-> Undefined]
    /\ enginePc = [e \in Engines |-> "start"]
    /\ createError = [e \in Engines |-> NoError]
    /\ endCalls = [e \in Engines |-> 0]
    /\ closeCalls = [e \in Engines |-> 0]

\* create(): obtain the DbConnection (index.ts 124-130, first statement of
\* either branch).  Building the handle may itself throw, leaving
\* `connection` undefined for the catch block.
AcquireConnection(e) ==
    /\ enginePc[e] = "start"
    /\ \E ok \in BOOLEAN :
        IF ok
        THEN /\ connection' = [connection EXCEPT ![e] =
                    IF config[e].kind = "databaseUrl"
                    THEN createDbConnection(config[e])
                    ELSE wrapExternalClient(config[e])]
             /\ enginePc' = [enginePc EXCEPT ![e] = "connect"]
             /\ UNCHANGED createError
        ELSE /\ enginePc' = [enginePc EXCEPT ![e] = "catch"]
             /\ createError' = [createError EXCEPT ![e] = "handle construction failed"]
             /\ UNCHANGED connection
    /\ UNCHANGED <<config, endCalls, closeCalls>>
    /\ UNCHANGED notEngineVars

\* create(): await connectDb(connection.pgClient) (index.ts 126 / 129).
ConnectDb(e) ==
    /\ enginePc[e] = "connect"
    /\ \E raw \in PgConnectOutcomes(connection[e].pgClient, config[e]) :
        LET r == connectDb(connection[e].pgClient, raw) IN
        IF r = "ok"
        THEN /\ enginePc' = [enginePc EXCEPT ![e] = "verify"]
             /\ UNCHANGED createError
        ELSE /\ enginePc' = [enginePc EXCEPT ![e] = "catch"]
             /\ createError' = [createError EXCEPT ![e] = r]
    /\ UNCHANGED <<config, connection, endCalls, closeCalls>>
    /\ UNCHANGED notEngineVars

\* create(): verifyEmbeddingDimensions, then the wiring of repositories and
\* services, whose constructors only store references (index.ts 132-164).
VerifyEmbeddingDimensions(e) ==
    /\ enginePc[e] = "verify"
    /\ \E r \in ProbeOutcomes :
        IF r.throws
        THEN /\ enginePc' = [enginePc EXCEPT ![e] = "catch"]
             /\ createError' = [createError EXCEPT ![e] = "provider error"]
        ELSE IF r.length # EMBEDDING_DIMENSIONS
        THEN /\ enginePc' = [enginePc EXCEPT ![e] = "catch"]
             /\ createError' = [createError EXCEPT ![e] = "Embedding dimension mismatch"]
        ELSE /\ enginePc' = [enginePc EXCEPT ![e] = "ready"]
             /\ UNCHANGED createError
    /\ UNCHANGED <<config, connection, endCalls, closeCalls>>
    /\ UNCHANGED notEngineVars

\* create(): the catch block (index.ts 165-174).  end() may itself reject,
\* and then its error replaces the original one.
CatchCreate(e) ==
    /\ enginePc[e] = "catch"
    /\ IF CatchEndsConnection(connection[e])
       THEN /\ endCalls' = [endCalls EXCEPT ![e] = @ + 1]
            /\ \E endOk \in BOOLEAN :
                 createError' = [createError EXCEPT ![e] =
                                    IF endOk THEN @ ELSE "end failed"]
       ELSE UNCHANGED <<endCalls, createError>>
    /\ enginePc' = [enginePc EXCEPT ![e] = "rejected"]
    /\ UNCHANGED <<config, connection, closeCalls>>
    /\ UNCHANGED notEngineVars

\* close() (index.ts 246-253), callable any number of times on a created
\* engine.
Close(e) ==
    /\ enginePc[e] = "ready"
    /\ closeCalls[e] < MaxClose
    /\ closeCalls' = [closeCalls EXCEPT ![e] = @ + 1]
    /\ IF CloseEndsConnection(connection[e])
       THEN endCalls' = [endCalls EXCEPT ![e] = @ + 1]
       ELSE UNCHANGED endCalls
    /\ UNCHANGED <<config, connection, enginePc, createError>>
    /\ UNCHANGED notEngineVars

(***************************************************************************)
(*                 HYBRID SEARCH: Reciprocal Rank Fusion                   *)
(***************************************************************************)

\* Largest topK a call is made with.
MaxTopK == 3

\* The ids of the rows of rag_documents (id is the primary key, so a query
\* never returns the same id twice).
DocIds == {"A", "B", "C", "D"}

\* RagRepository.ts: const RRF_CONSTANT = 60.
RRF_CONSTANT == 60

\* A query that has not resolved yet.
Pending == <<"pending">>

\* Scores are kept as exact fractions num/den.  For ranks 1..8 the IEEE
\* doubles the code computes are ordered, and equal, exactly as these
\* fractions are.
Rat(n, d) == [num |-> n, den |-> d]
RatAdd(a, b) == [num |-> a.num * b.den + b.num * a.den, den |-> a.den * b.den]
RatLess(a, b) == a.num * b.den < b.num * a.den
RatEq(a, b) == a.num * b.den = b.num * a.den

Min(a, b) == IF a <= b THEN a ELSE b
Max(a, b) == IF a >= b THEN a ELSE b

\* Sequences over S of length n without repetition.
InjSeqs(S, n) ==
    {s \in [1..n -> S] : \A i, j \in 1..n : i # j => s[i] # s[j]}

\* What findByVector / findByText can return under `.limit(topK)`: up to
\* topK rows, distinct ids, in rank order.
HitLists(topK) == UNION {InjSeqs(DocIds, n) : n \in 0..Min(topK, Cardinality(DocIds))}

\* A mutant of rrfScore: the rank taken 0-based.
rrfScore_ZeroBased(index) == Rat(1, RRF_CONSTANT + index)

\* `const rank = index + 1; const rrfScore = 1 / (RRF_CONSTANT + rank)` for
\* the forEach index (0-based).
rrfScore(index) == Rat(1, RRF_CONSTANT + (index + 1))

\* The Map `merged` is kept as the sequence of its values in insertion order.
\* First loop: every vector hit is set with its RRF score.
MergeVector(vec) ==
    [i \in 1..Len(vec) |-> [id |-> vec[i], combinedScore |-> rrfScore(i - 1)]]

\* A mutant of MergeText: a hit found in both lists has its score
\* overwritten by the text contribution instead of summed.
RECURSIVE MergeText_Overwrite(_, _, _)
MergeText_Overwrite(merged, text, i) ==
    IF i > Len(text) THEN merged
    ELSE LET score == rrfScore(i - 1)
             pos == {j \in 1..Len(merged) : merged[j].id = text[i]}
         IN  IF pos # {}
             THEN MergeText_Overwrite(
                      [merged EXCEPT ![CHOOSE j \in pos : TRUE].combinedScore = score],
                      text, i + 1)
             ELSE MergeText_Overwrite(
                      Append(merged, [id |-> text[i], combinedScore |-> score]),
                      text, i + 1)

\* Second loop, from text[i] on: an id already in the map has the text
\* contribution added in place; a new id is appended.
RECURSIVE MergeText(_, _, _)
MergeText(merged, text, i) ==
    IF i > Len(text) THEN merged
    ELSE LET score == rrfScore(i - 1)
             pos == {j \in 1..Len(merged) : merged[j].id = text[i]}
         IN  IF pos # {}
             THEN MergeText(
                      [merged EXCEPT ![CHOOSE j \in pos : TRUE].combinedScore =
                                          RatAdd(@, score)],
                      text, i + 1)
             ELSE MergeText(
                      Append(merged, [id |-> text[i], combinedScore |-> score]),
                      text, i + 1)

\* `.sort((a, b) => b.combinedScore - a.combinedScore)`: Array.prototype.sort
\* is stable, so equal scores keep their insertion order.  Computed as an
\* insertion sort: each value goes behind every value not smaller than it.
RECURSIVE SortByScoreDesc(_)
SortByScoreDesc(s) ==
    IF s = <<>> THEN <<>>
    ELSE LET rest == SortByScoreDesc(SubSeq(s, 1, Len(s) - 1))
             x == s[Len(s)]
             k == Cardinality({j \in 1..Len(rest) :
                        ~RatLess(rest[j].combinedScore, x.combinedScore)})
         IN  SubSeq(rest, 1, k) \o <<x>> \o SubSeq(rest, k + 1, Len(rest))

\* `results.map((r) => r.content)`: a document's content stands for its id.
ResultIdsOf(res) == [i \in 1..Len(res) |-> res[i].id]

\* `.slice(0, n)`.
SliceTo(s, n) == SubSeq(s, 1, Min(n, Len(s)))

\* RagRepository.hybridSearch once both queries have resolved.
hybridSearch(vec, text, topK) ==
    SliceTo(SortByScoreDesc(MergeText(MergeVector(vec), text, 1)), topK)

HybridInit ==
    /\ hybridPc = "searching"
    /\ hybridTopK \in 1..MaxTopK
    /\ vectorResults = Pending
    /\ textResults = Pending
    /\ hybridResult = <<>>

\* findByVector resolves (one branch of the Promise.all), or rejects
\* (invalid embedding, dimension mismatch, store error) and hybridSearch
\* rejects with it.
FindByVector ==
    /\ hybridPc = "searching"
    /\ vectorResults = Pending
    /\ \/ /\ \E hits \in HitLists(hybridTopK) : vectorResults' = hits
          /\ UNCHANGED hybridPc
       \/ /\ hybridPc' = "rejected"
          /\ UNCHANGED vectorResults
    /\ UNCHANGED <<hybridTopK, textResults, hybridResult>>
    /\ UNCHANGED notHybridVars

\* findByText resolves (the other branch), or rejects.
FindByText ==
    /\ hybridPc = "searching"
    /\ textResults = Pending
    /\ \/ /\ \E hits \in HitLists(hybridTopK) : textResults' = hits
          /\ UNCHANGED hybridPc
       \/ /\ hybridPc' = "rejected"
          /\ UNCHANGED textResults
    /\ UNCHANGED <<hybridTopK, vectorResults, hybridResult>>
    /\ UNCHANGED notHybridVars

\* Both branches have resolved: merge, sort, slice (RagRepository.ts 152-183).
HybridMerge ==
    /\ hybridPc = "searching"
    /\ vectorResults # Pending
    /\ textResults # Pending
    /\ hybridResult' = hybridSearch(vectorResults, textResults, hybridTopK)
    /\ hybridPc' = "merged"
    /\ UNCHANGED <<hybridTopK, vectorResults, textResults>>
    /\ UNCHANGED notHybridVars

(***************************************************************************)
(*              CHATBOT PIPELINE: ChatbotService.processRagRequest         *)
(***************************************************************************)

\* Number of requests handled concurrently over one cache.
NumRequests == 2

Requests == 1..NumRequests

\* An absent optional value is the empty sequence, a present one <<v>>.
None == <<>>
Some(v) == <<v>>

\* A JSON number: finite or not (NaN, Infinity), fractions as num/den.
Num(n) == [finite |-> TRUE, num |-> n, den |-> 1]

\* The `messages` argument: a list whose last user message is not its last
\* message, a list with a single user message, a list with no user message.
MessageLists ==
    { << [role |-> "user", content |-> "x"],
         [role |-> "assistant", content |-> "a"],
         [role |-> "user", content |-> "y"],
         [role |-> "system", content |-> "s"] >>,
      << [role |-> "user", content |-> "x"] >>,
      << [role |-> "system", content |-> "s"] >> }

\* context: Record<string, string>, as a set of key/value pairs.
Contexts == { {}, {<<"screen", "home">>} }

\* The (messages, context) arguments the requests are made with.
RequestArgs == MessageLists \X Contexts

\* context.screen
ScreenOf(context) ==
    IF \E kv \in context : kv[1] = "screen"
    THEN Some((CHOOSE kv \in context : kv[1] = "screen")[2])
    ELSE None

\* `[...messages].reverse().find((m) => m.role === "user")?.content ?? ""`
lastUserMessage(messages) ==
    LET idx == {i \in 1..Len(messages) : messages[i].role = "user"}
    IN  IF idx = {} THEN ""
        ELSE messages[CHOOSE i \in idx : \A j \in idx : j <= i].content

\* A search plan: the SearchPlanSchema fields that steer the pipeline.  The
\* other optional fields (reason, knowledge_source, navigation_intent) are
\* carried along unread.
Plan(ss, q, k, ents) ==
    [should_search |-> ss, search_query |-> q, top_k |-> k,
     identified_entities |-> ents]

\* What the planner LLM may answer.  kind: the call throws; the content has
\* no {...} substring; the substring is not JSON; or it parses to obj.
\* obj.wellTyped is false when a field has the wrong type (should_search:
\* "yes"), and top_k may lie outside the schema's 1..8.
PlannerReply(kind, wellTyped, plan) ==
    [kind |-> kind, wellTyped |-> wellTyped, obj |-> plan]

\* The planner call rejects.
PlannerThrows == PlannerReply("throw", FALSE, Plan(FALSE, "", None, <<>>))

\* The contents the planner may answer with.
PlannerContents ==
    { PlannerReply(k, FALSE, Plan(FALSE, "", None, <<>>))
        : k \in {"no-braces", "unparsable"} }
    \cup { PlannerReply("object", TRUE, Plan(TRUE, "fever", Some(Num(9)), <<>>)),
           PlannerReply("object", FALSE, Plan(FALSE, "fever", None, <<>>)) }
    \cup { PlannerReply("object", TRUE, Plan(ss, "fever", k, ents))
            : ss \in BOOLEAN, k \in {None, Some(Num(3))},
              ents \in {<<>>, <<"Aspirin">>} }

\* SearchPlanSchema.safeParse(parsed).success: the types are right and top_k,
\* when present, is an integer in 1..8.
SchemaOk(reply) ==
    /\ reply.wellTyped
    /\ \/ reply.obj.top_k = None
       \/ LET k == reply.obj.top_k[1]
          IN  /\ k.finite
              /\ k.num % k.den = 0
              /\ k.num \div k.den >= 1
              /\ k.num \div k.den <= 8

\* The plan every failure path of analyzeRequest returns.
DefaultPlan(userMessage) == Plan(TRUE, userMessage, None, <<>>)

\* A mutant of analyzeRequest: a parsed object is used without validation.
analyzeRequest_NoValidation(userMessage, reply) ==
    IF reply.kind = "throw"
    THEN [error |-> "chatCompletion failed", plan |-> DefaultPlan(userMessage)]
    ELSE IF reply.kind = "object"
    THEN [error |-> NoError, plan |-> reply.obj]
    ELSE [error |-> NoError, plan |-> DefaultPlan(userMessage)]

\* ChatbotService.analyzeRequest: the provider call is outside the try, so
\* its error propagates; inside the try a missing match, a JSON.parse error
\* and a schema failure all yield the default plan.
analyzeRequest(userMessage, reply) ==
    IF reply.kind = "throw"
    THEN [error |-> "chatCompletion failed", plan |-> DefaultPlan(userMessage)]
    ELSE IF reply.kind = "no-braces"
    THEN [error |-> NoError, plan |-> DefaultPlan(userMessage)]
    ELSE IF reply.kind = "unparsable"
    THEN [error |-> NoError, plan |-> DefaultPlan(userMessage)]
    ELSE IF SchemaOk(reply)
    THEN [error |-> NoError, plan |-> reply.obj]
    ELSE [error |-> NoError, plan |-> DefaultPlan(userMessage)]

\* A mutant of Floor: rounds to the nearest integer.
Floor_Rounds(x) == (2 * x.num + x.den) \div (2 * x.den)

\* Math.floor of a finite number.
Floor(x) == x.num \div x.den

\* types/llm normalizeSearchPlan with its default arguments (5, 1, 8).
normalizeSearchPlan(plan) ==
    LET rawTopK == plan.top_k
        topK == IF rawTopK # None /\ rawTopK[1].finite
                THEN Min(8, Max(1, Floor(rawTopK[1])))
                ELSE 5
    IN  [plan EXCEPT !.top_k = Some(Num(topK))]

\* `effectiveSearchPlan.top_k ?? 5`
TopKOf(effectivePlan) ==
    IF effectivePlan.top_k = None THEN 5 ELSE Floor(effectivePlan.top_k[1])

\* The cache key: SHA-256 over the stable serialization of
\* {cacheVersion, messages, context, plan}.  The digest is taken to be
\* collision free, so the key is the serialized value itself.
CACHE_VERSION == "v2"
cacheKeyOf(messages, context, effectivePlan) ==
    <<CACHE_VERSION, messages, context, effectivePlan>>

\* CacheRepository.findByHash: the row with that request_hash, if any
\* (request_hash is unique).
findByHash(cache, hash) ==
    IF \E row \in cache : row.requestHash = hash
    THEN Some(CHOOSE row \in cache : row.requestHash = hash)
    ELSE None

\* A mutant of save: a plain insert, with no conflict clause.
save_InsertOnly(cache, hash, question, context, response) ==
    cache \cup { [requestHash |-> hash, question |-> question,
                  context |-> context, response |-> response, hitCount |-> 0] }

\* CacheRepository.save: insert, or on a request_hash conflict overwrite
\* question, context and response (hit_count is left alone).
save(cache, hash, question, context, response) ==
    IF \E row \in cache : row.requestHash = hash
    THEN { IF row.requestHash = hash
           THEN [row EXCEPT !.question = question, !.context = context,
                            !.response = response]
           ELSE row : row \in cache }
    ELSE cache \cup { [requestHash |-> hash, question |-> question,
                       context |-> context, response |-> response,
                       hitCount |-> 0] }

\* CacheRepository.incrementHitCount: hit_count + 1 on the matching row.
incrementHitCount(cache, hash) ==
    { IF row.requestHash = hash THEN [row EXCEPT !.hitCount = @ + 1] ELSE row
        : row \in cache }

\* The document store the requests read.  Queries are answered from a fixed
\* corpus: every embedding ranks A, B, C by distance and only the query
\* "fever" matches rows (B, then C) lexically.
StoreVectorHits(query, topK) == SliceTo(<<"A", "B", "C">>, topK)
StoreTextHits(query, topK) ==
    IF query = "fever" THEN SliceTo(<<"B", "C">>, topK) ELSE <<>>

\* The final completion's content, one per request.
Answer(r) == <<"answer", r>>

\* ---- control flow of processRagRequest ----

\* A mutant of Continue: a failed call is ignored and the pipeline goes on.
Continue_IgnoresFailure(ok, next) == next

\* Every provider and store call is awaited with no try/catch around it: a
\* rejection ends the request.
Continue(ok, next) == IF ok THEN next ELSE "failed"

\* Lines 117-120: graph enrichment only for a non-empty entity list.
AfterRetrieve(plan) ==
    IF plan.identified_entities # <<>> THEN "graph" ELSE "complete"

\* A mutant of AfterMiss: retrieval is skipped.
AfterMiss_SkipsRetrieval(plan) == "complete"

\* Line 98: retrieval only when the plan asks for it.
AfterMiss(plan) ==
    IF plan.should_search THEN "embed" ELSE AfterRetrieve(plan)

\* A mutant of AfterLookup: the early return on a hit is missing.
AfterLookup_NoEarlyReturn(cached, plan) == AfterMiss(plan)

\* Lines 82-88: a hit goes to incrementHitCount and returns.
AfterLookup(cached, plan) ==
    IF cached # None THEN "increment" ELSE AfterMiss(plan)

\* Locals of one request derived from its arguments and plan.
UserMessage(q) == lastUserMessage(q.messages)
EffectivePlan(q) == normalizeSearchPlan(q.searchPlan)
CacheKey(q) == cacheKeyOf(q.messages, q.context, EffectivePlan(q))

Call(op, ok, arg) == [op |-> op, ok |-> ok, arg |-> arg]

NewRequest(messages, context, planned) ==
    [pc |-> "plan", messages |-> messages, context |-> context,
     plannerContent |-> planned, reply |-> None, searchPlan |-> DefaultPlan(""),
     cached |-> None, vectorHits |-> Pending, textHits |-> Pending,
     ragResults |-> <<>>, ragContext |-> <<>>, finalResponse |-> None,
     log |-> <<>>, error |-> NoError, result |-> None]

\* Requests with different arguments, or for which the planner answers
\* differently, have different cache keys and never touch the same row.
\* The concurrent requests modelled are therefore requests for the same
\* conversation, which the planner (temperature 0) answers alike; every
\* call of every request may still fail on its own.
ChatInit ==
    /\ \E args \in RequestArgs, planned \in PlannerContents :
            requests = [r \in Requests |-> NewRequest(args[1], args[2], planned)]
    /\ chatbotCache = {}

\* Step (what a request does next).  `q` is the request's record.
Step(r, ok, next, op, arg, changes) ==
    requests' = [requests EXCEPT ![r] =
        [changes EXCEPT
            !.pc = Continue(ok, next),
            !.log = Append(@, Call(op, ok, arg)),
            !.error = IF ok \/ @ # NoError THEN @ ELSE op]]

\* Lines 64-68: the planning call (LLM call 1) and normalization.
AnalyzeRequest(r) ==
    LET q == requests[r] IN
    /\ q.pc = "plan"
    /\ \E reply \in {q.plannerContent, PlannerThrows} :
        LET a == analyzeRequest(UserMessage(q), reply)
        IN  Step(r, a.error = NoError, "lookup", "chatCompletion:plan",
                 <<UserMessage(q)>>,
                 [q EXCEPT !.reply = Some(reply), !.searchPlan = a.plan])
    /\ UNCHANGED chatbotCache
    /\ UNCHANGED notChatVars

\* Lines 71-82: the cache lookup.
FindByHash(r) ==
    LET q == requests[r] IN
    /\ q.pc = "lookup"
    /\ \E ok \in BOOLEAN :
        LET cached == IF ok THEN findByHash(chatbotCache, CacheKey(q)) ELSE None
        IN  Step(r, ok, AfterLookup(cached, q.searchPlan), "findByHash", <<>>,
                 [q EXCEPT !.cached = cached])
    /\ UNCHANGED chatbotCache
    /\ UNCHANGED notChatVars

\* Lines 83-87: the hit path.
IncrementHitCount(r) ==
    LET q == requests[r] IN
    /\ q.pc = "increment"
    /\ \E ok \in BOOLEAN :
        /\ Step(r, ok, "done", "incrementHitCount", <<>>,
                [q EXCEPT !.result =
                    IF ok THEN Some([id |-> "cached",
                                     content |-> q.cached[1].response,
                                     rag |-> None])
                    ELSE @])
        /\ chatbotCache' = IF ok THEN incrementHitCount(chatbotCache, CacheKey(q))
                           ELSE chatbotCache
    /\ UNCHANGED notChatVars

\* Lines 99-101: embed the plan's search query.
CreateEmbedding(r) ==
    LET q == requests[r] IN
    /\ q.pc = "embed"
    /\ \E ok \in BOOLEAN :
        Step(r, ok, "search", "createEmbedding", <<q.searchPlan.search_query>>, q)
    /\ UNCHANGED chatbotCache
    /\ UNCHANGED notChatVars

\* Lines 102-107, RagRepository 147-150: the vector branch of hybridSearch
\* resolves, or rejects and the request fails with it.
SearchVector(r) ==
    LET q == requests[r] IN
    /\ q.pc = "search"
    /\ q.vectorHits = Pending
    /\ \E ok \in BOOLEAN :
        IF ok
        THEN requests' = [requests EXCEPT ![r].vectorHits =
                StoreVectorHits(q.searchPlan.search_query, TopKOf(EffectivePlan(q)))]
        ELSE Step(r, FALSE, "failed", "findByVector", <<>>, q)
    /\ UNCHANGED chatbotCache
    /\ UNCHANGED notChatVars

\* The text branch of hybridSearch.
SearchText(r) ==
    LET q == requests[r] IN
    /\ q.pc = "search"
    /\ q.textHits = Pending
    /\ \E ok \in BOOLEAN :
        IF ok
        THEN requests' = [requests EXCEPT ![r].textHits =
                StoreTextHits(q.searchPlan.search_query, TopKOf(EffectivePlan(q)))]
        ELSE Step(r, FALSE, "failed", "findByText", <<>>, q)
    /\ UNCHANGED chatbotCache
    /\ UNCHANGED notChatVars

\* Both branches resolved: hybridSearch returns, lines 108-113 build
\* ragResults and ragContext.
HybridSearchReturns(r) ==
    LET q == requests[r]
        topK == TopKOf(EffectivePlan(q))
    IN
    /\ q.pc = "search"
    /\ q.vectorHits # Pending
    /\ q.textHits # Pending
    /\ LET results == hybridSearch(q.vectorHits, q.textHits, topK)
       IN  Step(r, TRUE, AfterRetrieve(q.searchPlan), "hybridSearch",
                <<q.searchPlan.search_query, topK, ScreenOf(q.context)>>,
                [q EXCEPT !.ragResults = results,
                          !.ragContext = ResultIdsOf(results)])
    /\ UNCHANGED chatbotCache
    /\ UNCHANGED notChatVars

\* Lines 117-128: graph enrichment; the service returns null or a context.
GetContextForEntities(r) ==
    LET q == requests[r] IN
    /\ q.pc = "graph"
    /\ \E ok \in BOOLEAN, graphContext \in {None, Some("graph context")} :
        /\ ok \/ graphContext = None
        /\ Step(r, ok, "complete", "getContextForEntities",
                <<q.searchPlan.identified_entities>>,
                [q EXCEPT !.ragContext = IF ok THEN @ \o graphContext ELSE @])
    /\ UNCHANGED chatbotCache
    /\ UNCHANGED notChatVars

\* Lines 131-135: the final completion (LLM call 2).
FinalCompletion(r) ==
    LET q == requests[r] IN
    /\ q.pc = "complete"
    /\ \E ok \in BOOLEAN :
        Step(r, ok, "save", "chatCompletion:final", <<q.ragContext>>,
             [q EXCEPT !.finalResponse = IF ok THEN Some(Answer(r)) ELSE @])
    /\ UNCHANGED notChatVars
    /\ UNCHANGED chatbotCache

\* Lines 138-148: the cache save and the response.
SaveCache(r) ==
    LET q == requests[r]
        response == IF q.finalResponse = None THEN <<"undefined", r>>
                   ELSE q.finalResponse[1]
    IN
    /\ q.pc = "save"
    /\ \E ok \in BOOLEAN :
        /\ Step(r, ok, "done", "save", <<>>,
                [q EXCEPT !.result =
                    IF ok THEN Some([id |-> "final", content |-> response,
                                     rag |-> Some([results |-> q.ragResults,
                                                   plan |-> EffectivePlan(q)])])
                    ELSE @])
        /\ chatbotCache' =
              IF ok THEN save(chatbotCache, CacheKey(q), UserMessage(q),
                              q.context, response)
              ELSE chatbotCache
    /\ UNCHANGED notChatVars

(***************************************************************************)
(*                  INGESTION: RagEngine.ingestDocument                    *)
(***************************************************************************)

\* A string is held run-length encoded: a sequence of runs [ch, n] standing
\* for n copies of the character ch, adjacent runs having different
\* characters.  Indices are JavaScript's, from 0.
Run(ch, n) == [ch |-> ch, n |-> n]

\* The ideographic full stop "。" (U+3002), one character.
FullStop == "U+3002"

\* Longest content, in runs.
MaxRuns == 3

\* The runs contents are made of: letters, newlines and the full stop "。",
\* in lengths around the limits 3000 and 6000.
Runs ==
    { Run("A", n) : n \in {1, 3000, 3001, 5900, 5999, 6000, 6001} }
    \cup { Run("B", 2000) }
    \cup { Run("\n", n) : n \in {1, 2, 3} }
    \cup { Run(FullStop, n) : n \in {1, 3002} }

RECURSIVE RunSeqs(_)
RunSeqs(n) ==
    IF n = 0 THEN {<<>>}
    ELSE LET shorter == RunSeqs(n - 1)
         IN  shorter \cup
             { Append(s, r) : s \in {t \in shorter : Len(t) = n - 1}, r \in Runs }

\* The content arguments: every string of at most MaxRuns runs.
Contents ==
    { s \in RunSeqs(MaxRuns) :
        \A i \in 1..(Len(s) - 1) : s[i].ch # s[i + 1].ch }

\* content.length
RECURSIVE Length(_)
Length(s) == IF s = <<>> THEN 0 ELSE s[1].n + Length(Tail(s))

\* content.slice(0, end), 0 <= end.
RECURSIVE slice(_, _)
slice(s, end) ==
    IF s = <<>> \/ end <= 0 THEN <<>>
    ELSE IF s[1].n <= end THEN <<s[1]>> \o slice(Tail(s), end - s[1].n)
    ELSE <<Run(s[1].ch, end)>>

\* A mutant of lastIndexOfParagraph: indexOf, the first occurrence.
RECURSIVE lastIndexOfParagraph_First(_, _, _)
lastIndexOfParagraph_First(s, offset, fromIndex) ==
    IF s = <<>> THEN -1
    ELSE IF s[1].ch = "\n" /\ s[1].n >= 2 /\ offset <= fromIndex THEN offset
    ELSE lastIndexOfParagraph_First(Tail(s), offset + s[1].n, fromIndex)

\* content.lastIndexOf("\n\n", fromIndex) for the part of the string that
\* starts at `offset`: the greatest index <= fromIndex at which "\n\n"
\* begins, or -1.  A run of n >= 2 newlines starting at o holds the
\* occurrences o .. o + n - 2.
RECURSIVE lastIndexOfParagraph(_, _, _)
lastIndexOfParagraph(s, offset, fromIndex) ==
    IF s = <<>> THEN -1
    ELSE LET later == lastIndexOfParagraph(Tail(s), offset + s[1].n, fromIndex)
         IN  IF later # -1 THEN later
             ELSE IF s[1].ch = "\n" /\ s[1].n >= 2 /\ offset <= fromIndex
             THEN Min(fromIndex, offset + s[1].n - 2)
             ELSE -1

\* content.match(/[。\n]/g): the array of the matched characters, held as
\* runs (null, for no match at all, is the empty array here: both give -1).
match(s) == SelectSeq(s, LAMBDA r : r.ch \in {FullStop, "\n"})

\* Array.prototype.lastIndexOf("。", fromIndex) on the array of matches: the
\* greatest array index <= fromIndex holding "。", or -1.
RECURSIVE arrayLastIndexOf(_, _, _)
arrayLastIndexOf(a, offset, fromIndex) ==
    IF a = <<>> THEN -1
    ELSE LET later == arrayLastIndexOf(Tail(a), offset + a[1].n, fromIndex)
         IN  IF later # -1 THEN later
             ELSE IF a[1].ch = FullStop /\ offset <= fromIndex
             THEN Min(fromIndex, offset + a[1].n - 1)
             ELSE -1

MAX_EMBEDDING_CHARS == 6000

\* Lines 210-228 of ingestDocument: the text to embed.
embeddingInputOf(c) ==
    IF Length(c) > MAX_EMBEDDING_CHARS
    THEN LET lastParagraph == lastIndexOfParagraph(c, 0, MAX_EMBEDDING_CHARS)
         IN  IF 2 * lastParagraph > MAX_EMBEDDING_CHARS
             THEN slice(c, lastParagraph)
             ELSE LET lastSentence ==
                          arrayLastIndexOf(match(c), 0, MAX_EMBEDDING_CHARS)
                  IN  IF 2 * lastSentence > MAX_EMBEDDING_CHARS
                      THEN slice(c, lastSentence + 1)
                      ELSE slice(c, MAX_EMBEDDING_CHARS)
    ELSE c

\* A mutant of DocumentOf: the truncated text is stored.
DocumentOf_Truncated(id, c, input, vector) ==
    [id |-> id, content |-> input, embedding |-> vector]

\* Lines 233-237: the document handed to upsertDocument.
DocumentOf(id, c, input, vector) ==
    [id |-> id, content |-> c, embedding |-> vector]

\* randomUUID(): the n-th id handed out; ids never repeat.
randomUUID(n) == <<"uuid", n>>

\* A mutant of upsertDocument: the insert is rolled back with the call.
upsertDocument_RolledBack(rows, doc) == rows

\* RagRepository.upsertDocument's insert ... onConflictDoUpdate on id.
upsertDocument(rows, doc) ==
    {row \in rows : row.id # doc.id} \cup {doc}

\* Lengths of the vectors the provider may return.
EmbeddingLengths == {0, 3, EMBEDDING_DIMENSIONS}

\* What buildGraphFromDocument may do: resolve with its counts, or reject
\* after some of its upserts.
GraphOutcomes ==
    [ok : BOOLEAN, nodesCreated : {0, 1}, edgesCreated : {0, 2}]

\* The rag_documents table before the call: empty, or holding a document.
InitialDocuments ==
    { {}, {[id |-> <<"uuid", 0>>, content |-> <<Run("B", 2000)>>,
            embedding |-> EMBEDDING_DIMENSIONS]} }

IngestInit ==
    /\ ingestPc = "start"
    /\ content \in Contents
    /\ embeddingInput = None
    /\ embedding = None
    /\ documents \in InitialDocuments
    /\ uuids = 0
    /\ graphWrites = 0
    /\ ingestResult = None

\* Lines 209-231: truncate, then `await createEmbedding(embeddingInput)`.
CreateDocumentEmbedding ==
    /\ ingestPc = "start"
    /\ embeddingInput' = Some(embeddingInputOf(content))
    /\ \/ \E n \in EmbeddingLengths :
            /\ embedding' = Some(n)
            /\ ingestPc' = "upsert"
            /\ UNCHANGED ingestResult
       \/ /\ ingestPc' = "failed"
          /\ ingestResult' = Some("createEmbedding failed")
          /\ UNCHANGED embedding
    /\ UNCHANGED <<content, documents, uuids, graphWrites>>
    /\ UNCHANGED notIngestVars

\* Lines 233-237 and RagRepository.upsertDocument: the dimension check, then
\* the insert, which may fail.
UpsertDocument ==
    /\ ingestPc = "upsert"
    /\ uuids' = uuids + 1
    /\ LET doc == DocumentOf(randomUUID(uuids + 1), content, embeddingInput[1],
                             embedding[1])
       IN  IF doc.embedding # EMBEDDING_DIMENSIONS
           THEN /\ ingestPc' = "failed"
                /\ ingestResult' = Some("Embedding dimension mismatch")
                /\ UNCHANGED documents
           ELSE \/ /\ documents' = upsertDocument(documents, doc)
                   /\ ingestPc' = "graph"
                   /\ UNCHANGED ingestResult
                \/ /\ ingestPc' = "failed"
                   /\ ingestResult' = Some("insert failed")
                   /\ UNCHANGED documents
    /\ UNCHANGED <<content, embeddingInput, embedding, graphWrites>>
    /\ UNCHANGED notIngestVars

\* Line 239: `return await buildGraphFromDocument(content)`.
BuildGraphFromDocument ==
    /\ ingestPc = "graph"
    /\ \E out \in GraphOutcomes :
        /\ graphWrites' = graphWrites + out.nodesCreated + out.edgesCreated
        /\ ingestPc' = IF out.ok THEN "done" ELSE "failed"
        /\ ingestResult' =
              IF out.ok THEN Some([nodesCreated |-> out.nodesCreated,
                                   edgesCreated |-> out.edgesCreated])
              ELSE Some("buildGraphFromDocument failed")
    /\ UNCHANGED <<content, embeddingInput, embedding, documents, uuids>>
    /\ UNCHANGED notIngestVars

(***************************************************************************)
(*      GRAPH CONSTRUCTION: KnowledgeGraphService.buildGraphFromDocument   *)
(***************************************************************************)

\* Longest entity list and relation list an extraction holds.
MaxEntities == 2
MaxRelations == 2

\* Strings that are lowercased or concatenated are sequences of characters.
Aspirin == <<"A", "s", "p", "i", "r", "i", "n">>
aspirin == <<"a", "s", "p", "i", "r", "i", "n">>
Fever == <<"F", "e", "v", "e", "r">>
FEVER == <<"F", "E", "V", "E", "R">>
Unknown == <<"U", "n", "k", "n", "o", "w", "n">>
drug == <<"d", "r", "u", "g">>
chemical == <<"c", "h", "e", "m", "i", "c", "a", "l">>
disease == <<"d", "i", "s", "e", "a", "s", "e">>

\* String.prototype.toLowerCase, on the letters in use.
LowerOf(ch) ==
    CASE ch = "A" -> "a" [] ch = "E" -> "e" [] ch = "F" -> "f"
      [] ch = "R" -> "r" [] ch = "U" -> "u" [] ch = "V" -> "v"
      [] OTHER -> ch
toLowerCase(str) == [i \in 1..Len(str) |-> LowerOf(str[i])]

\* A mutant of generateNodeId: the name is hashed as written.
generateNodeId_CaseSensitive(name, type) ==
    <<"node_", name \o <<":", ":">> \o type>>

\* GraphExtractor.generateNodeId: "node_" and the first 16 hex digits of
\* SHA-256 over `${name.toLowerCase()}::${type}`.  The digest is taken to be
\* collision free, so the id carries the hashed string itself.
generateNodeId(name, type) ==
    <<"node_", toLowerCase(name) \o <<":", ":">> \o type>>

\* GraphExtractor.generateEdgeId: `edge_${sourceId}_${relationType}_${targetId}`.
generateEdgeId(sourceId, targetId, relationType) ==
    <<"edge_", sourceId, relationType, targetId>>

\* The entities and relations an extraction may hold.  Weights are written
\* in tenths (9 is 0.9); an absent weight is None.
EntityPool ==
    { [name |-> Aspirin, type |-> drug], [name |-> aspirin, type |-> drug],
      [name |-> Aspirin, type |-> chemical], [name |-> Fever, type |-> disease] }
RelationPool ==
    { [source |-> Aspirin, target |-> Fever, relationType |-> "treats",
       weight |-> Some(9)],
      [source |-> Unknown, target |-> Fever, relationType |-> "related_to",
       weight |-> None],
      [source |-> FEVER, target |-> aspirin, relationType |-> "causes",
       weight |-> None] }

RECURSIVE SeqsUpTo(_, _)
SeqsUpTo(S, n) ==
    IF n = 0 THEN {<<>>}
    ELSE LET shorter == SeqsUpTo(S, n - 1)
         IN  shorter \cup
             { Append(q, x) : q \in {t \in shorter : Len(t) = n - 1}, x \in S }

\* GraphExtractor.extract lines 90-117: the entities are unique by lowercased
\* name and type, the relations by lowercased source, lowercased target and
\* relation type.
UniqueEntities(entities) ==
    \A i, j \in 1..Len(entities) :
        (/\ toLowerCase(entities[i].name) = toLowerCase(entities[j].name)
         /\ entities[i].type = entities[j].type) => i = j
UniqueRelations(relations) ==
    \A i, j \in 1..Len(relations) :
        (/\ toLowerCase(relations[i].source) = toLowerCase(relations[j].source)
         /\ toLowerCase(relations[i].target) = toLowerCase(relations[j].target)
         /\ relations[i].relationType = relations[j].relationType) => i = j

Extractions ==
    { x \in [entities : SeqsUpTo(EntityPool, MaxEntities),
             relations : SeqsUpTo(RelationPool, MaxRelations)] :
        UniqueEntities(x.entities) /\ UniqueRelations(x.relations) }

\* What one createEmbedding(e.name).catch(() => undefined) settles to:
\* undefined, or a vector of this length.
EntityEmbeddings == {None, Some(2), Some(EMBEDDING_DIMENSIONS)}

\* Map.prototype.get / set on nameToId, a set of <<key, value>> pairs with
\* one pair per key.
MapGet(map, key) ==
    IF \E kv \in map : kv[1] = key
    THEN Some((CHOOSE kv \in map : kv[1] = key)[2])
    ELSE None
MapSet(map, key, value) ==
    {kv \in map : kv[1] # key} \cup {<<key, value>>}

\* KnowledgeGraphRepository.upsertNode: insert, or overwrite the row with
\* that id.
upsertNode(rows, node) ==
    {row \in rows : row.id # node.id} \cup {node}

\* KnowledgeGraphRepository.upsertEdge: insert, or on an id conflict set
\* relationType, weight and properties of the existing row.
upsertEdge(rows, edge) ==
    IF \E row \in rows : row.id = edge.id
    THEN { IF row.id = edge.id
           THEN [row EXCEPT !.relationType = edge.relationType,
                            !.weight = edge.weight]
           ELSE row : row \in rows }
    ELSE rows \cup {edge}

\* Lines 59-63: inside the node loop the embedding of entity i alone is
\* checked, right before its upsert.
DimensionChecked(results, i) ==
    results[i] = None \/ results[i][1] = EMBEDDING_DIMENSIONS

\* A mutant of Resolved: an endpoint missing from the map is taken as is.
Resolved_Always(sourceId, targetId) == TRUE

\* Line 80: `if (!sourceId || !targetId) continue`.
Resolved(sourceId, targetId) == sourceId # None /\ targetId # None

\* The node tables a call may find: empty, or holding the node an earlier
\* call made for the entity "aspirin" of type drug.
EarlierNodes ==
    { {},
      { [id |-> generateNodeId(aspirin, drug), name |-> aspirin, type |-> drug,
         embedding |-> None] } }

BuildInit ==
    /\ buildPc = "extract"
    /\ extraction \in Extractions
    /\ embeddingResults = <<>>
    /\ nameToId = {}
    /\ knowledgeNodes \in EarlierNodes
    /\ knowledgeEdges = {}
    /\ nodeCalls = <<>>
    /\ edgeCalls = <<>>
    /\ nextEntity = 1
    /\ nextRelation = 1
    /\ nodesCreated = 0
    /\ edgesCreated = 0
    /\ buildResult = None

\* What stays as it is while the named variables change.
BuildFrame(changed) ==
    /\ "pc" \in changed \/ UNCHANGED buildPc
    /\ "embed" \in changed \/ UNCHANGED embeddingResults
    /\ "nodes" \in changed \/
          UNCHANGED <<nameToId, knowledgeNodes, nodeCalls, nextEntity, nodesCreated>>
    /\ "edges" \in changed \/
          UNCHANGED <<knowledgeEdges, edgeCalls, nextRelation, edgesCreated>>
    /\ "result" \in changed \/ UNCHANGED buildResult
    /\ UNCHANGED extraction
    /\ UNCHANGED notBuildVars

\* Line 34: `await this.extractor.extract(content)` resolves or rejects.
Extract ==
    /\ buildPc = "extract"
    /\ \/ /\ buildPc' = "embed"
          /\ BuildFrame({"pc"})
       \/ /\ buildPc' = "failed"
          /\ buildResult' = Some("extract failed")
          /\ BuildFrame({"pc", "result"})

\* Lines 40-49: one embedding per entity, a failed call giving undefined.
CreateEntityEmbeddings ==
    /\ buildPc = "embed"
    /\ embeddingResults' \in [1..Len(extraction.entities) -> EntityEmbeddings]
    /\ buildPc' = "nodes"
    /\ BuildFrame({"pc", "embed"})

\* Lines 53-72: one turn of the node loop, for entity nextEntity.
UpsertNode ==
    /\ buildPc = "nodes"
    /\ nextEntity <= Len(extraction.entities)
    /\ LET entity == extraction.entities[nextEntity]
           nodeId == generateNodeId(entity.name, entity.type)
           node == [id |-> nodeId, name |-> entity.name, type |-> entity.type,
                    embedding |-> embeddingResults[nextEntity]]
       IN  /\ nameToId' = MapSet(nameToId, toLowerCase(entity.name), nodeId)
           /\ IF ~DimensionChecked(embeddingResults, nextEntity)
              THEN /\ buildPc' = "failed"
                   /\ buildResult' = Some("Embedding dimension mismatch")
                   /\ UNCHANGED <<knowledgeNodes, nodeCalls, nextEntity,
                                  nodesCreated>>
              ELSE /\ nodeCalls' = Append(nodeCalls, node)
                   /\ \/ /\ knowledgeNodes' = upsertNode(knowledgeNodes, node)
                         /\ nodesCreated' = nodesCreated + 1
                         /\ nextEntity' = nextEntity + 1
                         /\ UNCHANGED <<buildPc, buildResult>>
                      \/ /\ buildPc' = "failed"
                         /\ buildResult' = Some("upsertNode failed")
                         /\ UNCHANGED <<knowledgeNodes, nextEntity, nodesCreated>>
    /\ BuildFrame({"pc", "nodes", "result"})

\* Line 53: the node loop ends.
NodesDone ==
    /\ buildPc = "nodes"
    /\ nextEntity > Len(extraction.entities)
    /\ buildPc' = "edges"
    /\ BuildFrame({"pc"})

\* Lines 75-95: one turn of the edge loop, for relation nextRelation.
UpsertEdge ==
    /\ buildPc = "edges"
    /\ nextRelation <= Len(extraction.relations)
    /\ LET relation == extraction.relations[nextRelation]
           sourceId == MapGet(nameToId, toLowerCase(relation.source))
           targetId == MapGet(nameToId, toLowerCase(relation.target))
       IN  IF ~Resolved(sourceId, targetId)
           THEN /\ nextRelation' = nextRelation + 1
                /\ UNCHANGED <<knowledgeEdges, edgeCalls, edgesCreated, buildPc,
                               buildResult>>
           ELSE LET src == IF sourceId = None THEN "undefined" ELSE sourceId[1]
                    tgt == IF targetId = None THEN "undefined" ELSE targetId[1]
                    edge == [id |-> generateEdgeId(src, tgt, relation.relationType),
                             sourceId |-> src, targetId |-> tgt,
                             relationType |-> relation.relationType,
                             weight |-> IF relation.weight = None THEN 10
                                        ELSE relation.weight[1]]
                IN  /\ edgeCalls' = Append(edgeCalls, edge)
                    /\ \/ /\ knowledgeEdges' = upsertEdge(knowledgeEdges, edge)
                          /\ edgesCreated' = edgesCreated + 1
                          /\ nextRelation' = nextRelation + 1
                          /\ UNCHANGED <<buildPc, buildResult>>
                       \/ /\ buildPc' = "failed"
                          /\ buildResult' = Some("upsertEdge failed")
                          /\ UNCHANGED <<knowledgeEdges, nextRelation,
                                         edgesCreated>>
    /\ BuildFrame({"pc", "edges", "result"})

\* Line 97: `return { nodesCreated, edgesCreated }`.
BuildReturns ==
    /\ buildPc = "edges"
    /\ nextRelation > Len(extraction.relations)
    /\ buildPc' = "done"
    /\ buildResult' = Some([nodesCreated |-> nodesCreated,
                            edgesCreated |-> edgesCreated])
    /\ BuildFrame({"pc", "result"})

(***************************************************************************)
(*     GRAPH QUERIES: KnowledgeGraphRepository.traverseBatch / getSubgraph *)
(***************************************************************************)

\* Largest number of edges in the store and largest maxDepth argument.
MaxEdges == 3
MaxDepth == 2

\* The node ids of the stores queried.
GraphNodeIds == {"a", "b", "c"}

\* A knowledge_nodes row and a knowledge_edges row.  source_id and
\* target_id reference knowledge_nodes.id (on delete cascade); nothing
\* forbids source_id = target_id.
NodeRow(n) == [id |-> n, name |-> n, type |-> "concept", embedding |-> None]
EdgeRow(src, tgt, w) ==
    [id |-> generateEdgeId(src, tgt, "related_to"), sourceId |-> src,
     targetId |-> tgt, relationType |-> "related_to", weight |-> w]

\* The stores: every node, and at most MaxEdges edges between them.
UnweightedEdges == { EdgeRow(src, tgt, Some(10)) : src, tgt \in GraphNodeIds }
EdgeSets(pool, n) == { E \in SUBSET pool : Cardinality(E) <= n }

IdsOf(rows) == { row.id : row \in rows }

\* The endpoint of edge e that the walk arrives at.
FarEnd(e, fromSource) == IF fromSource THEN e.targetId ELSE e.sourceId

\* Lines 222-236, the base case of graph_traverse: one row per edge with an
\* endpoint among the seeds, joined with the node at the other end (the
\* target, when the source is a seed).
BaseRow(e, seeds) ==
    LET out == e.sourceId \in seeds
    IN  [id |-> FarEnd(e, out), relation |-> e.relationType, depth |-> 1,
         direction |-> IF out THEN "outgoing" ELSE "incoming",
         path |-> <<FarEnd(e, out)>>,
         start_node_id |-> IF out THEN e.sourceId ELSE e.targetId]
BaseRows(nodes, edges, seeds) ==
    { BaseRow(e, seeds) :
        e \in { x \in edges :
                  /\ x.sourceId \in seeds \/ x.targetId \in seeds
                  /\ FarEnd(x, x.sourceId \in seeds) \in IdsOf(nodes) } }

\* Lines 256-258, the WHERE of the recursive case.
MayExtend(gt, n2, depthLimit) ==
    /\ gt.depth < depthLimit
    /\ \A k \in 1..Len(gt.path) : gt.path[k] # n2
    /\ n2 # gt.start_node_id

\* Lines 241-258, the recursive case: the rows one edge further than `rows`.
StepRow(gt, e2) ==
    LET out == e2.sourceId = gt.id
    IN  [id |-> FarEnd(e2, out), relation |-> e2.relationType,
         depth |-> gt.depth + 1,
         direction |-> IF out THEN "outgoing" ELSE "incoming",
         path |-> Append(gt.path, FarEnd(e2, out)),
         start_node_id |-> gt.start_node_id]
StepRows(nodes, edges, rows, depthLimit) ==
    { StepRow(p[1], p[2]) :
        p \in { x \in rows \X edges :
                  /\ x[2].sourceId = x[1].id \/ x[2].targetId = x[1].id
                  /\ FarEnd(x[2], x[2].sourceId = x[1].id) \in IdsOf(nodes)
                  /\ MayExtend(x[1], FarEnd(x[2], x[2].sourceId = x[1].id),
                               depthLimit) } }

\* WITH RECURSIVE graph_traverse: the rows of the base case and of every
\* round of the recursive case, until a round adds no row.
RECURSIVE graph_traverse(_, _, _, _)
graph_traverse(nodes, edges, frontier, depthLimit) ==
    IF frontier = {} THEN {}
    ELSE frontier \cup
         graph_traverse(nodes, edges, StepRows(nodes, edges, frontier, depthLimit),
                        depthLimit)

\* A mutant of DistinctOnId: one row per id, of any depth.
DistinctOnId_AnyDepth(rows) ==
    { { f[i] : i \in IdsOf(rows) } :
        f \in { g \in [IdsOf(rows) -> rows] : \A i \in IdsOf(rows) : g[i].id = i } }

\* Lines 260-262, SELECT DISTINCT ON (id) ... ORDER BY id, depth ASC: one row
\* per id, of the least depth; which of several such rows is not determined.
DistinctOnId(rows) ==
    LET least(i) == { r \in rows : /\ r.id = i
                                   /\ \A o \in rows : o.id = i => r.depth <= o.depth }
    IN  { { f[i] : i \in IdsOf(rows) } :
            f \in { g \in [IdsOf(rows) -> rows] :
                      \A i \in IdsOf(rows) : g[i] \in least(i) } }

\* KnowledgeGraphRepository.traverseBatch: the results it may return.  The
\* rows keep path and start_node_id, which the mapping at lines 265-275
\* drops.
traverseBatch(nodes, edges, seeds, depthLimit) ==
    IF seeds = {} THEN { {} }
    ELSE DistinctOnId(graph_traverse(nodes, edges, BaseRows(nodes, edges, seeds),
                                     depthLimit))

\* Lines 285-289: the seeds and the traversed node ids.
allNodeIdsOf(seeds, rows) == seeds \cup IdsOf(rows)

\* A mutant of EdgesBetween: edges with one endpoint in the set are returned.
EdgesBetween_EitherEnd(edges, ids) ==
    { e \in edges : e.sourceId \in ids \/ e.targetId \in ids }

\* Lines 303-318: the edges with both endpoints in the set.
EdgesBetween(edges, ids) ==
    { e \in edges : e.sourceId \in ids /\ e.targetId \in ids }

QueryInit ==
    /\ queryPc = "traverse"
    /\ nodeIds \in { {}, {"a"}, {"a", "b"}, {"a", "d"} }
    /\ maxDepth \in 0..MaxDepth
    /\ knowledgeNodes = { NodeRow(n) : n \in GraphNodeIds }
    /\ knowledgeEdges \in EdgeSets(UnweightedEdges, MaxEdges)
    /\ traversal = {}
    /\ subgraphNodes = {}
    /\ subgraphEdges = {}
    /\ storeModified = FALSE
    /\ writesLeft = 1

\* Writes other requests make while one getSubgraph call runs.
MaxWrites == 2

\* A call on a store of at most one edge, during which other requests make
\* up to MaxWrites writes.
ConcurrentQueryInit ==
    /\ queryPc = "traverse"
    /\ nodeIds \in { {}, {"a"}, {"a", "d"} }
    /\ maxDepth = 1
    /\ knowledgeNodes = { NodeRow(n) : n \in GraphNodeIds }
    /\ knowledgeEdges \in EdgeSets(UnweightedEdges, 1)
    /\ traversal = {}
    /\ subgraphNodes = {}
    /\ subgraphEdges = {}
    /\ storeModified = FALSE
    /\ writesLeft = MaxWrites

QueryFrame == UNCHANGED <<nodeIds, maxDepth>> /\ UNCHANGED notQueryVars

\* Line 281: getSubgraph of no seeds returns at once.
EmptySubgraph ==
    /\ queryPc = "traverse"
    /\ nodeIds = {}
    /\ queryPc' = "done"
    /\ UNCHANGED <<traversal, subgraphNodes, subgraphEdges, storeModified,
                   writesLeft, storeVars>>
    /\ QueryFrame

\* Line 284: `await this.traverseBatch(nodeIds, maxDepth)`.
TraverseBatch ==
    /\ queryPc = "traverse"
    /\ nodeIds # {}
    /\ \/ /\ traversal' \in traverseBatch(knowledgeNodes, knowledgeEdges,
                                         nodeIds, maxDepth)
          /\ queryPc' = "nodes"
       \/ /\ queryPc' = "failed"
          /\ UNCHANGED traversal
    /\ UNCHANGED <<subgraphNodes, subgraphEdges, storeModified, writesLeft,
                   storeVars>>
    /\ QueryFrame

\* Lines 292-300: the node fetch.
FetchNodes ==
    /\ queryPc = "nodes"
    /\ \/ /\ subgraphNodes' =
                { n \in knowledgeNodes : n.id \in allNodeIdsOf(nodeIds, traversal) }
          /\ queryPc' = "edges"
       \/ /\ queryPc' = "failed"
          /\ UNCHANGED subgraphNodes
    /\ UNCHANGED <<traversal, subgraphEdges, storeModified, writesLeft,
                   storeVars>>
    /\ QueryFrame

\* Lines 303-330: the edge fetch, and the return.
FetchEdges ==
    /\ queryPc = "edges"
    /\ \/ /\ subgraphEdges' =
                EdgesBetween(knowledgeEdges, allNodeIdsOf(nodeIds, traversal))
          /\ queryPc' = "done"
       \/ /\ queryPc' = "failed"
          /\ UNCHANGED subgraphEdges
    /\ UNCHANGED <<traversal, subgraphNodes, storeModified, writesLeft,
                   storeVars>>
    /\ QueryFrame

\* Another request writes to the graph tables between two reads of the
\* call: deleteNode (the node's edges go with it), upsertNode, upsertEdge.
OtherRequestWrites ==
    /\ queryPc \in {"nodes", "edges"}
    /\ writesLeft > 0
    /\ writesLeft' = writesLeft - 1
    /\ storeModified' = TRUE
    /\ \/ \E n \in GraphNodeIds :
            /\ knowledgeNodes' = { row \in knowledgeNodes : row.id # n }
            /\ knowledgeEdges' =
                  { e \in knowledgeEdges : e.sourceId # n /\ e.targetId # n }
       \/ \E n \in GraphNodeIds \cup {"d"} :
            /\ knowledgeNodes' = upsertNode(knowledgeNodes, NodeRow(n))
            /\ UNCHANGED knowledgeEdges
       \/ \E e \in UnweightedEdges
                    \cup { EdgeRow("a", "d", Some(10)), EdgeRow("d", "a", Some(10)) } :
            /\ e.sourceId \in IdsOf(knowledgeNodes)
            /\ e.targetId \in IdsOf(knowledgeNodes)
            /\ knowledgeEdges' = upsertEdge(knowledgeEdges, e)
            /\ UNCHANGED knowledgeNodes
    /\ UNCHANGED <<queryPc, traversal, subgraphNodes, subgraphEdges>>
    /\ QueryFrame

(***************************************************************************)
(*            PATH FINDING: KnowledgeGraphRepository.findPaths             *)
(***************************************************************************)

\* Largest maxDepth argument of findPaths.
MaxPathDepth == 2

\* `LIMIT 5`
PATH_LIMIT == 5

\* An edge row of a given relation type; weights are in tenths, None is a
\* NULL weight.
WeightedEdge(src, tgt, rel, w) ==
    [id |-> generateEdgeId(src, tgt, rel), sourceId |-> src, targetId |-> tgt,
     relationType |-> rel, weight |-> w]

\* The edges the stores searched are made of: parallel and opposite edges
\* between a and b, two ways round over c, and a self-loop.
PathEdgePool ==
    { WeightedEdge("a", "b", "treats", Some(5)),
      WeightedEdge("a", "b", "causes", None),
      WeightedEdge("b", "a", "treats", Some(20)),
      WeightedEdge("a", "c", "treats", None),
      WeightedEdge("c", "a", "causes", Some(5)),
      WeightedEdge("c", "b", "treats", Some(5)),
      WeightedEdge("b", "c", "causes", None),
      WeightedEdge("a", "a", "treats", Some(5)) }

\* `COALESCE(e.weight, 1.0)`, in tenths.
WeightOf(e) == IF e.weight = None THEN 10 ELSE e.weight[1]

\* Lines 343-348, the base case of path_search.  edge_ids tells apart rows
\* that UNION ALL keeps apart: walks over different edges.
PathBaseRow(from) ==
    [node_path |-> <<from>>, relations |-> <<>>, total_weight |-> 0,
     current_id |-> from, depth |-> 0, edge_ids |-> <<>>]

\* Lines 353-365, the recursive step.
PathStepRow(ps, e) ==
    LET n == FarEnd(e, e.sourceId = ps.current_id)
    IN  [node_path |-> Append(ps.node_path, n),
         relations |-> Append(ps.relations, e.relationType),
         total_weight |-> ps.total_weight + WeightOf(e),
         current_id |-> n, depth |-> ps.depth + 1,
         edge_ids |-> Append(ps.edge_ids, e.id)]
PathStepRows(nodes, edges, frontier, depthLimit) ==
    { PathStepRow(p[1], p[2]) :
        p \in { x \in frontier \X edges :
                  LET n == FarEnd(x[2], x[2].sourceId = x[1].current_id)
                  IN  /\ \/ x[2].sourceId = x[1].current_id
                         \/ x[2].targetId = x[1].current_id
                      /\ n \in IdsOf(nodes)
                      /\ x[1].depth < depthLimit
                      /\ \A k \in 1..Len(x[1].node_path) :
                            x[1].node_path[k] # n } }

RECURSIVE path_search(_, _, _, _)
path_search(nodes, edges, frontier, depthLimit) ==
    IF frontier = {} THEN {}
    ELSE frontier \cup
         path_search(nodes, edges, PathStepRows(nodes, edges, frontier, depthLimit),
                     depthLimit)

\* A mutant of OrderedLimit: the rows come in any order.
RECURSIVE OrderedLimit_Unordered(_, _)
OrderedLimit_Unordered(found, limit) ==
    IF found = {} \/ limit = 0 THEN { <<>> }
    ELSE UNION { { <<r>> \o rest : rest \in OrderedLimit_Unordered(found \ {r},
                                                                   limit - 1) }
                   : r \in found }

\* `ORDER BY total_weight ASC LIMIT n`: every list the query may return;
\* rows of equal weight come in any order.
RECURSIVE OrderedLimit(_, _)
OrderedLimit(found, limit) ==
    IF found = {} \/ limit = 0 THEN { <<>> }
    ELSE UNION { { <<r>> \o rest : rest \in OrderedLimit(found \ {r}, limit - 1) }
                   : r \in { x \in found :
                               \A o \in found : x.total_weight <= o.total_weight } }

\* Lines 340-372: the query.
pathSearchQuery(nodes, edges, from, to, depthLimit) ==
    OrderedLimit({ r \in path_search(nodes, edges, {PathBaseRow(from)}, depthLimit)
                     : r.current_id = to },
                 PATH_LIMIT)

\* Lines 400-410: each row with its node ids replaced by the nodes fetched,
\* ids without a node left out.
Hydrate(row, nodes) ==
    [path |-> LET found == SelectSeq(row.node_path, LAMBDA id : id \in IdsOf(nodes))
              IN  [k \in 1..Len(found) |-> CHOOSE n \in nodes : n.id = found[k]],
     relations |-> row.relations,
     totalWeight |-> row.total_weight]

PathInit ==
    /\ pathsPc = "search"
    /\ fromId \in GraphNodeIds \cup {"d"}
    /\ toId \in GraphNodeIds \cup {"d"}
    /\ pathDepth \in 0..MaxPathDepth
    /\ knowledgeNodes = { NodeRow(n) : n \in GraphNodeIds }
    /\ knowledgeEdges \in SUBSET PathEdgePool
    /\ pathRows = <<>>
    /\ paths = <<>>

PathFrame == UNCHANGED <<fromId, toId, pathDepth, storeVars>> /\ UNCHANGED notPathVars

\* Lines 340-380: `await this.db.execute(...)`.
SearchPaths ==
    /\ pathsPc = "search"
    /\ \/ /\ pathRows' \in pathSearchQuery(knowledgeNodes, knowledgeEdges, fromId,
                                      toId, pathDepth)
          /\ pathsPc' = "pathRows"
       \/ /\ pathsPc' = "failed"
          /\ UNCHANGED pathRows
    /\ UNCHANGED paths
    /\ PathFrame

\* Line 381: `if (rows.length === 0) return []`.
NoPaths ==
    /\ pathsPc = "pathRows"
    /\ pathRows = <<>>
    /\ pathsPc' = "done"
    /\ UNCHANGED <<pathRows, paths>>
    /\ PathFrame

\* Lines 384-410: the node fetch and the mapping of the rows.
HydratePaths ==
    /\ pathsPc = "pathRows"
    /\ pathRows # <<>>
    /\ \/ /\ paths' = [k \in 1..Len(pathRows) |-> Hydrate(pathRows[k], knowledgeNodes)]
          /\ pathsPc' = "done"
       \/ /\ pathsPc' = "failed"
          /\ UNCHANGED paths
    /\ UNCHANGED pathRows
    /\ PathFrame

(***************************************************************************)
(*               PLAN NORMALIZATION: normalizeSearchPlan                   *)
(***************************************************************************)

\* The numbers top_k is drawn from are n/d with |n| <= MaxNumerator and
\* 1 <= d <= MaxDenominator.
MaxNumerator == 19
MaxDenominator == 2

Fraction(n, d) == [finite |-> TRUE, num |-> n, den |-> d]

\* NaN, Infinity, -Infinity
NotFinite == [finite |-> FALSE, num |-> 0, den |-> 1]

\* plan.top_k: absent, not finite, or a fraction
TopKArgs ==
    {None, Some(NotFinite)}
    \cup { Some(Fraction(n, d)) :
             n \in (0 - MaxNumerator)..MaxNumerator, d \in 1..MaxDenominator }

PlanArgs ==
    { Plan(ss, "fever", k, ents) :
        ss \in BOOLEAN, k \in TopKArgs, ents \in {<<>>, <<"Aspirin">>} }

PlanInit ==
    /\ planArg \in PlanArgs
    /\ planResult = None

\* normalizeSearchPlan(plan)
NormalizeSearchPlan ==
    /\ planResult = None
    /\ planResult' = Some(normalizeSearchPlan(planArg))
    /\ UNCHANGED planArg
    /\ UNCHANGED notPlanVars

(***************************************************************************)
(*        CACHE KEY: processRagRequest lines 71-80, stableStringify        *)
(***************************************************************************)

\* Longest `messages` array of the requests keyed.
MaxMessages == 2

\* JavaScript values: a string, a number or boolean literal, an array, and an
\* object as the list of its own properties in enumeration order.
JsString(str) == [t |-> "string", v |-> <<str>>]
JsLiteral(text) == [t |-> "literal", v |-> <<text>>]
JsArray(elements) == [t |-> "array", v |-> elements]
JsObject(properties) == [t |-> "object", v |-> properties]

\* The property names used, in the order of Array.prototype.sort() (UTF-16
\* code units).
SortedKeys ==
    << "cacheVersion", "content", "context", "locale", "messages",
       "navigation_intent", "patient_name", "plan", "role", "screen",
       "search_query", "should_search", "target_route_key", "top_k" >>
KeyRank(key) == CHOOSE i \in 1..Len(SortedKeys) : SortedKeys[i] = key

\* `Object.keys(v).sort().reduce((r, k) => { r[k] = v[k]; return r }, {})`
SortKeys(properties) ==
    [k \in 1..Len(properties) |->
        properties[CHOOSE i \in 1..Len(properties) :
            Cardinality({ j \in 1..Len(properties) :
                            KeyRank(properties[j][1]) < KeyRank(properties[i][1]) })
                = k - 1]]

\* A mutant of replacer: JSON.stringify without a replacer.
replacer_Identity(value) == value

\* Lines 152-160: the replacer passed to JSON.stringify.
replacer(value) ==
    IF value.t = "object" THEN JsObject(SortKeys(value.v)) ELSE value

\* JSON.stringify(value, replacer) as a list of tokens: the replacer is
\* applied to every value before it is written, arrays are written in index
\* order and objects in the enumeration order of the replaced value.
RECURSIVE stringify(_)
RECURSIVE stringifyList(_, _)
stringifyList(items, isObject) ==
    IF items = <<>> THEN <<>>
    ELSE (IF isObject
          THEN <<"\"", items[1][1], "\"", ":">> \o stringify(items[1][2])
          ELSE stringify(items[1]))
         \o (IF Len(items) > 1 THEN <<",">> ELSE <<>>)
         \o stringifyList(Tail(items), isObject)
stringify(value) ==
    LET replaced == replacer(value)
    IN  CASE replaced.t = "string" -> <<"\"", replaced.v[1], "\"">>
          [] replaced.t = "literal" -> <<replaced.v[1]>>
          [] replaced.t = "array" ->
                <<"[">> \o stringifyList(replaced.v, FALSE) \o <<"]">>
          [] replaced.t = "object" ->
                <<"{">> \o stringifyList(replaced.v, TRUE) \o <<"}">>

stableStringify(obj) == stringify(obj)

\* createHash("sha256").update(text).digest("hex"), taken to be collision
\* free: the digest stands for the text digested.
sha256(text) == <<"sha256">> \o text

\* Lines 71-80.
cacheKey(request) ==
    sha256(stableStringify(JsObject(<< <<"cacheVersion", JsString(CACHE_VERSION)>>,
                                       <<"messages", request.messages>>,
                                       <<"context", request.context>>,
                                       <<"plan", request.plan>> >>)))

\* Message objects, with their two properties in either order.
MessageObjects ==
    { JsObject(<< <<"role", JsString("user")>>, <<"content", JsString("x")>> >>),
      JsObject(<< <<"content", JsString("x")>>, <<"role", JsString("user")>> >>),
      JsObject(<< <<"role", JsString("assistant")>>, <<"content", JsString("a")>> >>) }

MessageArrays == { JsArray(m) : m \in SeqsUpTo(MessageObjects, MaxMessages) }

ContextObjects ==
    { JsObject(<< <<"screen", JsString("home")>>, <<"locale", JsString("ja")>> >>),
      JsObject(<< <<"locale", JsString("ja")>>, <<"screen", JsString("home")>> >>) }

\* Normalized plans: the same plan with its properties, and those of the
\* nested navigation_intent, in two orders, and one with another top_k.
PlanObjects ==
    { JsObject(<< <<"should_search", JsLiteral("true")>>,
                  <<"search_query", JsString("fever")>>,
                  <<"navigation_intent",
                    JsObject(<< <<"target_route_key", JsString("r")>>,
                                <<"patient_name", JsString("p")>> >>)>>,
                  <<"top_k", JsLiteral("5")>> >>),
      JsObject(<< <<"top_k", JsLiteral("5")>>,
                  <<"navigation_intent",
                    JsObject(<< <<"patient_name", JsString("p")>>,
                                <<"target_route_key", JsString("r")>> >>)>>,
                  <<"search_query", JsString("fever")>>,
                  <<"should_search", JsLiteral("true")>> >>),
      JsObject(<< <<"should_search", JsLiteral("true")>>,
                  <<"search_query", JsString("fever")>>,
                  <<"top_k", JsLiteral("3")>> >>) }

KeyRequests ==
    [messages : MessageArrays, context : ContextObjects, plan : PlanObjects]

KeyInit ==
    /\ keyArgs \in [1..2 -> KeyRequests]
    /\ cacheKeys = [i \in 1..2 |-> None]

\* Lines 71-80 for request i.
ComputeCacheKey(i) ==
    /\ cacheKeys[i] = None
    /\ cacheKeys' = [cacheKeys EXCEPT ![i] = Some(cacheKey(keyArgs[i]))]
    /\ UNCHANGED keyArgs
    /\ UNCHANGED notKeyVars

ComputeCacheKeys == \E i \in 1..2 : ComputeCacheKey(i)

(***************************************************************************)
(*      CACHE STATEMENTS: CacheRepository.save and incrementHitCount       *)
(***************************************************************************)

\* Callers issuing statements concurrently, and statements issued in all.
NumCallers == 2
MaxStatements == 4

Callers == 1..NumCallers
Hashes == {"h1", "h2"}

\* A caller's last statement: sent and in flight, or settled (ok, failed);
\* snapshot is the table as it was when the statement was sent.
Statement(state, op, h, snapshot) ==
    [state |-> state, op |-> op, hash |-> h, snapshot |-> snapshot]
NoCall == Statement("idle", "none", "", {})
Settled(call, state) == Statement(state, call.op, call.hash, {})

\* A mutant of RowVersion: the statement writes from the rows it saw when it
\* started.
RowVersion_Snapshot(latest, snapshot) == snapshot

\* The rows a statement's SET clause is evaluated on.  Each call is one
\* autocommitted statement under READ COMMITTED: it takes the row's lock and
\* evaluates `hit_count + 1`, or the conflict branch of the insert, on the
\* latest committed version of the row, not on the rows it saw when it began.
RowVersion(latest, snapshot) == latest

CacheInit ==
    /\ chatbotCache = {}
    /\ cacheCalls = [c \in Callers |-> NoCall]
    /\ statements = 0
    /\ hitsApplied = [h \in Hashes |-> 0]

\* A caller sends `save` or `incrementHitCount` for a hash.
BeginStatement(c) ==
    /\ cacheCalls[c].state # "sent"
    /\ statements < MaxStatements
    /\ \E op \in {"save", "incrementHitCount"}, h \in Hashes :
          cacheCalls' = [cacheCalls EXCEPT
                            ![c] = Statement("sent", op, h, chatbotCache)]
    /\ statements' = statements + 1
    /\ UNCHANGED <<chatbotCache, hitsApplied>>
    /\ UNCHANGED notCacheVars

\* CacheRepository.save, lines 15-38: the statement takes effect.
CompleteSave(c) ==
    /\ cacheCalls[c].state = "sent"
    /\ cacheCalls[c].op = "save"
    /\ chatbotCache' = save(RowVersion(chatbotCache, cacheCalls[c].snapshot),
                            cacheCalls[c].hash, "q", {}, <<"answer", c>>)
    /\ cacheCalls' = [cacheCalls EXCEPT ![c] = Settled(@, "ok")]
    /\ UNCHANGED <<statements, hitsApplied>>
    /\ UNCHANGED notCacheVars

\* CacheRepository.incrementHitCount, lines 40-48: the statement takes effect.
CompleteIncrement(c) ==
    /\ cacheCalls[c].state = "sent"
    /\ cacheCalls[c].op = "incrementHitCount"
    /\ chatbotCache' = incrementHitCount(RowVersion(chatbotCache,
                                                    cacheCalls[c].snapshot),
                                         cacheCalls[c].hash)
    /\ hitsApplied' =
          IF \E row \in chatbotCache : row.requestHash = cacheCalls[c].hash
          THEN [hitsApplied EXCEPT ![cacheCalls[c].hash] = @ + 1]
          ELSE hitsApplied
    /\ cacheCalls' = [cacheCalls EXCEPT ![c] = Settled(@, "ok")]
    /\ UNCHANGED statements
    /\ UNCHANGED notCacheVars

\* The statement fails (connection error) and changes nothing.
StatementFails(c) ==
    /\ cacheCalls[c].state = "sent"
    /\ cacheCalls' = [cacheCalls EXCEPT ![c] = Settled(@, "failed")]
    /\ UNCHANGED <<chatbotCache, statements, hitsApplied>>
    /\ UNCHANGED notCacheVars

BeginStatements == \E c \in Callers : BeginStatement(c)
CompleteSaves == \E c \in Callers : CompleteSave(c)
CompleteIncrements == \E c \in Callers : CompleteIncrement(c)
StatementsFail == \E c \in Callers : StatementFails(c)

(***************************************************************************)
(*        PROVIDER TRANSPORT: AzureOpenAiProvider.fetchWithRetry           *)
(***************************************************************************)

MAX_RETRIES == 2

\* The request bodies a provider call may carry.
RequestBodies == {"chat body", "embedding body"}

\* What one fetch settles to: a Response with a status, or a rejection (a
\* network failure, or the AbortError of the 30 s timeout).
Response(status) == [t |-> "response", v |-> status]
FetchError(kind) == [t |-> "error", v |-> kind]
Statuses == {200, 400, 404, 408, 429, 500, 503}
FetchErrors == {"network", "abort"}

\* Response.ok
IsOk(status) == 200 <= status /\ status <= 299

\* shouldRetry, lines 473-475.
shouldRetry(status) == status = 408 \/ status = 429 \/ status >= 500

\* A mutant of backoffMs: linear in the attempt.
backoffMs_Linear(n) == 300 * (n + 1)

\* backoffMs, lines 477-479.
backoffMs(n) == 300 * (n + 1) * (n + 1)

RetryInit ==
    /\ retryPc = "fetch"
    /\ attempt = 0
    /\ requestInit \in RequestBodies
    /\ fetchCalls = <<>>
    /\ sleeps = <<>>
    /\ retryResult = None

\* Lines 442-463: fetch resolves with a response.
FetchResponds ==
    /\ retryPc = "fetch"
    /\ \E status \in Statuses :
        /\ fetchCalls' = Append(fetchCalls, [body |-> requestInit,
                                             outcome |-> Response(status)])
        /\ IF IsOk(status)
           THEN /\ retryPc' = "returned"
                /\ retryResult' = Some(Response(status))
           ELSE IF attempt < MAX_RETRIES /\ shouldRetry(status)
           THEN /\ retryPc' = "sleep"
                /\ UNCHANGED retryResult
           ELSE /\ retryPc' = "returned"
                /\ retryResult' = Some(Response(status))
    /\ UNCHANGED <<attempt, requestInit, sleeps>>
    /\ UNCHANGED notRetryVars

\* Lines 464-470: fetch rejects, or the timeout aborts it.
FetchThrows ==
    /\ retryPc = "fetch"
    /\ \E kind \in FetchErrors :
        /\ fetchCalls' = Append(fetchCalls, [body |-> requestInit,
                                             outcome |-> FetchError(kind)])
        /\ IF attempt >= MAX_RETRIES
           THEN /\ retryPc' = "thrown"
                /\ retryResult' = Some(FetchError(kind))
           ELSE /\ retryPc' = "sleep"
                /\ UNCHANGED retryResult
    /\ UNCHANGED <<attempt, requestInit, sleeps>>
    /\ UNCHANGED notRetryVars

\* `await this.sleep(this.backoffMs(attempt))`, then the next iteration.
Sleep ==
    /\ retryPc = "sleep"
    /\ sleeps' = Append(sleeps, backoffMs(attempt))
    /\ attempt' = attempt + 1
    /\ retryPc' = "fetch"
    /\ UNCHANGED <<requestInit, fetchCalls, retryResult>>
    /\ UNCHANGED notRetryVars

(***************************************************************************)
(*              CHUNKING: GraphExtractor.splitIntoChunks                   *)
(***************************************************************************)

\* The chunk budget extract passes to splitIntoChunks.
CHUNK_SIZE == 3000

\* Most sentences a text holds.
MaxSentences == 3

\* `${a}${b}` on run-length encoded strings.
Concat(a, b) ==
    IF a = <<>> THEN b
    ELSE IF b = <<>> THEN a
    ELSE IF a[Len(a)].ch = b[1].ch
    THEN SubSeq(a, 1, Len(a) - 1)
         \o <<Run(b[1].ch, a[Len(a)].n + b[1].n)>> \o Tail(b)
    ELSE a \o b

\* s.slice(start): the string without its first `start` characters.
RECURSIVE sliceFrom(_, _)
sliceFrom(s, start) ==
    IF s = <<>> \/ start <= 0 THEN s
    ELSE IF s[1].n <= start THEN sliceFrom(Tail(s), start - s[1].n)
    ELSE <<Run(s[1].ch, s[1].n - start)>> \o Tail(s)

\* s.slice(start, end)
substring(s, start, end) == slice(sliceFrom(s, start), end - start)

\* The characters \s matches and the sentence enders of the lookbehind
\* [.!?。！？], among the characters in use.
Whitespace == {" ", "\n"}
SentenceEnders == {".", FullStop}

\* The k-th run of s belongs to a match of /\n\n+/.
IsParagraphGap(s, k) == s[k].ch = "\n" /\ s[k].n >= 2

\* The k-th run of s belongs to a match of /(?<=[.!?。！？])\s+/: white space
\* that follows a sentence ender, or that continues such a match.
RECURSIVE IsSentenceGap(_, _)
IsSentenceGap(s, k) ==
    /\ s[k].ch \in Whitespace
    /\ k > 1
    /\ \/ s[k - 1].ch \in SentenceEnders
       \/ IsSentenceGap(s, k - 1)

\* The k-th run of s belongs to a match of the pattern.
IsGap(s, k, pattern) ==
    IF pattern = "paragraphs" THEN IsParagraphGap(s, k) ELSE IsSentenceGap(s, k)

\* String.prototype.split on a pattern whose matches are whole runs: the
\* pieces between the matches, empty pieces included.
RECURSIVE SplitRuns(_, _, _, _)
SplitRuns(s, k, pieces, pattern) ==
    IF k > Len(s) THEN pieces
    ELSE IF IsGap(s, k, pattern)
    THEN IF k > 1 /\ IsGap(s, k - 1, pattern)
         THEN SplitRuns(s, k + 1, pieces, pattern)
         ELSE SplitRuns(s, k + 1, Append(pieces, <<>>), pattern)
    ELSE SplitRuns(s, k + 1,
                   [pieces EXCEPT ![Len(pieces)] = Append(@, s[k])], pattern)

\* text.split(/\n\n+/) and paragraph.split(/(?<=[.!?。！？])\s+/)
splitParagraphs(s) == SplitRuns(s, 1, <<<<>>>>, "paragraphs")
splitSentences(s) == SplitRuns(s, 1, <<<<>>>>, "sentences")

\* A mutant of Overflows: the separator is not counted.
Overflows_NoSeparator(current, piece, separator, chunkSize) ==
    Length(current) + Length(piece) > chunkSize /\ Length(current) > 0

\* `current.length + piece.length + separator > chunkSize &&
\*  current.length > 0` (lines 162 and 190-193).
Overflows(current, piece, separator, chunkSize) ==
    Length(current) + Length(piece) + separator > chunkSize /\ Length(current) > 0

\* Lines 183-185: the slices of a sentence longer than chunkSize.
RECURSIVE sliceSentence(_, _, _)
sliceSentence(sentence, i, chunkSize) ==
    IF i < Length(sentence)
    THEN <<substring(sentence, i, i + chunkSize)>>
         \o sliceSentence(sentence, i + chunkSize, chunkSize)
    ELSE <<>>

\* The loop of splitLargeParagraph, lines 177-198, from the k-th sentence
\* on, and the final push of lines 200-204.
RECURSIVE packSentences(_, _, _, _, _)
packSentences(sentences, k, parts, current, chunkSize) ==
    IF k > Len(sentences)
    THEN IF Length(current) > 0 THEN Append(parts, current) ELSE parts
    ELSE LET sentence == sentences[k] IN
         IF Length(sentence) > chunkSize
         THEN packSentences(sentences, k + 1,
                  (IF Length(current) > 0 THEN Append(parts, current) ELSE parts)
                      \o sliceSentence(sentence, 0, chunkSize),
                  <<>>, chunkSize)
         ELSE IF Overflows(current, sentence, 1, chunkSize)
         THEN packSentences(sentences, k + 1, Append(parts, current), sentence,
                            chunkSize)
         ELSE packSentences(sentences, k + 1, parts,
                  IF current # <<>>
                  THEN Concat(Concat(current, <<Run(" ", 1)>>), sentence)
                  ELSE sentence,
                  chunkSize)

splitLargeParagraph(paragraph, chunkSize) ==
    packSentences(splitSentences(paragraph), 1, <<>>, <<>>, chunkSize)

\* The loop of splitIntoChunks, lines 153-168, from the k-th paragraph on,
\* and the final push of line 169.
RECURSIVE packParagraphs(_, _, _, _, _)
packParagraphs(paragraphs, k, acc, current, chunkSize) ==
    IF k > Len(paragraphs)
    THEN IF current # <<>> THEN Append(acc, current) ELSE acc
    ELSE LET para == paragraphs[k] IN
         IF Length(para) > chunkSize
         THEN packParagraphs(paragraphs, k + 1,
                  (IF Length(current) > 0 THEN Append(acc, current) ELSE acc)
                      \o splitLargeParagraph(para, chunkSize),
                  <<>>, chunkSize)
         ELSE IF Overflows(current, para, 2, chunkSize)
         THEN packParagraphs(paragraphs, k + 1, Append(acc, current), para,
                             chunkSize)
         ELSE packParagraphs(paragraphs, k + 1, acc,
                  IF current # <<>>
                  THEN Concat(Concat(current, <<Run("\n", 2)>>), para)
                  ELSE para,
                  chunkSize)

\* GraphExtractor.splitIntoChunks, lines 148-171.
splitIntoChunks(text, chunkSize) ==
    IF Length(text) <= chunkSize THEN <<text>>
    ELSE packParagraphs(splitParagraphs(text), 1, <<>>, <<>>, chunkSize)

\* The texts: sentences of a letter and a full stop, in lengths around the
\* budget, separated by a space, a blank line or two blank lines.
SentenceLengths == {2, 1499, 1500, 3001, 6001}
Letters == <<"A", "B", "C", "D", "E">>
SentenceOf(k, n) == <<Run(Letters[k], n - 1), Run(".", 1)>>
Gaps == { <<Run(" ", 1)>>, <<Run("\n", 2)>>, <<Run("\n", 3)>> }

RECURSIVE TextsOf(_)
TextsOf(n) ==
    IF n = 1 THEN { SentenceOf(1, len) : len \in SentenceLengths }
    ELSE { t \o gap \o SentenceOf(n, len) :
             t \in TextsOf(n - 1), gap \in Gaps, len \in SentenceLengths }

\* Texts with a gap at either end, white space after a letter, a run of
\* mixed white space after a sentence, and "。" as the sentence ender.
SpecialTexts ==
    { <<Run("\n", 2), Run("A", 3000), Run("\n", 2), Run("B", 1)>>,
      <<Run("A", 2999), Run(".", 1), Run(" ", 1)>>,
      <<Run("A", 1500), Run(" ", 1), Run("B", 1500)>>,
      <<Run("A", 1500), Run(" ", 1), Run("B", 1499), Run(".", 1),
        Run(" ", 1), Run("\n", 1), Run(" ", 2), Run("C", 1)>>,
      <<Run("A", 2000), Run(FullStop, 1), Run("\n", 1), Run("B", 2000),
        Run(FullStop, 1)>>,
      <<Run("A", 1498), Run("\n", 2), Run("B", 1498), Run("\n", 4),
        Run("C", 10)>> }

ChunkTexts == UNION { TextsOf(n) : n \in 1..MaxSentences } \cup SpecialTexts

ChunkInit ==
    /\ chunkText \in ChunkTexts
    /\ chunks = None

\* Line 80: `const chunks = this.splitIntoChunks(content, 3000)`.
SplitIntoChunks ==
    /\ chunks = None
    /\ chunks' = Some(splitIntoChunks(chunkText, CHUNK_SIZE))
    /\ UNCHANGED chunkText
    /\ UNCHANGED notChunkVars

(***************************************************************************)
(*                  EXTRACTION: GraphExtractor.extract                     *)
(***************************************************************************)

\* Most chunks a content is split into.
MaxChunks == 3

\* A reply's content is a sequence of tokens: prose, braces, and the members
\* of a JSON object.
Prose == [t |-> "prose", v |-> None]
OpenBrace == [t |-> "{", v |-> None]
CloseBrace == [t |-> "}", v |-> None]
Members(object) == [t |-> "members", v |-> Some(object)]

\* JSON values: an object's `entities` and `relations` members are None when
\* missing and Some(array) otherwise; so is an entity's `type`.
JsonEntity(name, type, properties) ==
    [name |-> name, type |-> type, properties |-> properties]
Relation(source, target, relationType, weight) ==
    [source |-> source, target |-> target, relationType |-> relationType,
     weight |-> weight]
other == <<"o", "t", "h", "e", "r">>

\* `properties` objects, as maps from key to value.
Dose1 == {<<"dose", 1>>}
Dose2Form1 == {<<"dose", 2>>, <<"form", 1>>}
Note1 == {<<"note", 1>>}

\* Objects that satisfy ExtractionResultSchema.
FirstObject ==
    [entities |-> Some(<<JsonEntity(Aspirin, Some(drug), Some(Dose1)),
                         JsonEntity(Fever, Some(disease), None)>>),
     relations |-> Some(<<Relation(Aspirin, Fever, "treats", Some(9))>>)]
SecondObject ==
    [entities |-> Some(<<JsonEntity(aspirin, Some(drug), Some(Dose2Form1))>>),
     relations |-> Some(<<Relation(aspirin, FEVER, "treats", Some(5)),
                          Relation(Fever, aspirin, "causes", None)>>)]
ThirdObject ==
    [entities |-> Some(<<JsonEntity(Aspirin, Some(chemical), None),
                         JsonEntity(Aspirin, Some(drug), None)>>),
     relations |-> Some(<<>>)]
FourthObject ==
    [entities |-> Some(<<JsonEntity(Fever, Some(disease), Some(Note1)),
                         JsonEntity(FEVER, Some(disease), Some(Dose1))>>),
     relations |-> Some(<<Relation(Aspirin, Fever, "treats", Some(1)),
                          Relation(Aspirin, Fever, "treats", None)>>)]

\* Objects that do not: an entity without `type`, no `relations` member, and
\* the empty object.
UntypedEntityObject ==
    [entities |-> Some(<<JsonEntity(Unknown, None, None)>>),
     relations |-> Some(<<>>)]
NoRelationsObject ==
    [entities |-> Some(<<JsonEntity(Unknown, Some(other), None)>>),
     relations |-> None]
EmptyObject == [entities |-> None, relations |-> None]

\* The reply contents, by what they are.
Bare(object) == <<OpenBrace, Members(object), CloseBrace>>
Fenced(object) == <<Prose, OpenBrace, Members(object), CloseBrace, Prose>>
ExtractionReplies ==
    { Bare(FirstObject), Fenced(SecondObject), Bare(ThirdObject),
      Bare(FourthObject) }
NoJsonReplies == { <<Prose>>, <<CloseBrace, Prose, OpenBrace>>, <<>> }
UnparsableReplies ==
    { <<OpenBrace, Prose, CloseBrace>>,
      <<OpenBrace, Members(FirstObject), CloseBrace, Prose, CloseBrace>> }
SchemaFailReplies ==
    { Bare(UntypedEntityObject), Bare(NoRelationsObject),
      <<OpenBrace, CloseBrace>> }
ReplyContents ==
    ExtractionReplies \cup NoJsonReplies \cup UnparsableReplies
        \cup SchemaFailReplies

\* content.match(/\{[\s\S]*\}/): the tokens from the first "{" to the last
\* "}" after it, or None for null.
matchObject(tokens) ==
    LET opens == { k \in 1..Len(tokens) : tokens[k].t = "{" }
        closes == { k \in 1..Len(tokens) : tokens[k].t = "}" }
    IN  IF opens = {} THEN None
        ELSE LET first == CHOOSE k \in opens : \A o \in opens : k <= o
                 after == { k \in closes : k > first }
             IN  IF after = {} THEN None
                 ELSE Some(SubSeq(tokens, first,
                                  CHOOSE k \in after : \A c \in after : c <= k))

\* JSON.parse: the object, or a SyntaxError.
JSONparse(tokens) ==
    IF Len(tokens) = 2 /\ tokens[1].t = "{" /\ tokens[2].t = "}"
    THEN [ok |-> TRUE, value |-> EmptyObject]
    ELSE IF /\ Len(tokens) = 3
            /\ tokens[1].t = "{" /\ tokens[2].t = "members" /\ tokens[3].t = "}"
    THEN [ok |-> TRUE, value |-> tokens[2].v[1]]
    ELSE [ok |-> FALSE, value |-> EmptyObject]

NoExtraction == [entities |-> <<>>, relations |-> <<>>]

\* The ExtractedEntity a valid JSON entity parses to.
EntityOf(raw) ==
    [name |-> raw.name, type |-> raw.type[1], properties |-> raw.properties]

\* A mutant of safeParse: a missing `relations` member defaults to [].
safeParse_DefaultRelations(value) ==
    IF /\ value.entities # None
       /\ \A k \in 1..Len(value.entities[1]) : value.entities[1][k].type # None
    THEN [success |-> TRUE,
          data |-> [entities |-> [k \in 1..Len(value.entities[1]) |->
                                     EntityOf(value.entities[1][k])],
                    relations |-> IF value.relations = None THEN <<>>
                                  ELSE value.relations[1]]]
    ELSE [success |-> FALSE, data |-> NoExtraction]

\* ExtractionResultSchema.safeParse, lines 8-25.
safeParse(value) ==
    IF /\ value.entities # None
       /\ value.relations # None
       /\ \A k \in 1..Len(value.entities[1]) : value.entities[1][k].type # None
    THEN [success |-> TRUE,
          data |-> [entities |-> [k \in 1..Len(value.entities[1]) |->
                                     EntityOf(value.entities[1][k])],
                    relations |-> value.relations[1]]]
    ELSE [success |-> FALSE, data |-> NoExtraction]

\* Lines 133-145 of extractFromChunk: what a reply's content yields.
resultOfReply(tokens) ==
    LET found == matchObject(tokens) IN
    IF found = None THEN NoExtraction
    ELSE LET parsed == JSONparse(found[1]) IN
         IF ~parsed.ok THEN NoExtraction
         ELSE LET validated == safeParse(parsed.value) IN
              IF validated.success THEN validated.data ELSE NoExtraction

\* `${entity.name.toLowerCase()}::${entity.type}`
entityKey(entity) == toLowerCase(entity.name) \o <<":", ":">> \o entity.type

\* `${r.source.toLowerCase()}::${r.target.toLowerCase()}::${r.relationType}`
relationKey(r) ==
    toLowerCase(r.source) \o <<":", ":">> \o toLowerCase(r.target)
        \o <<":", ":">> \o <<r.relationType>>

\* `...properties`: the own members of the object, none for undefined.
spread(properties) == IF properties = None THEN {} ELSE properties[1]

\* A mutant of shallowMerge: the existing members win.
shallowMerge_ExistingWins(existing, later) ==
    Some(spread(existing)
         \cup { kv \in spread(later) :
                  \A own \in spread(existing) : own[1] # kv[1] })

\* `{ ...existing.properties, ...entity.properties }`
shallowMerge(existing, later) ==
    Some(spread(later)
         \cup { kv \in spread(existing) :
                  \A own \in spread(later) : own[1] # kv[1] })

\* Lines 91-106: entityMap after the entities from the k-th on are put.
RECURSIVE putEntities(_, _, _)
putEntities(entities, k, entityMap) ==
    IF k > Len(entities) THEN entityMap
    ELSE LET entity == entities[k]
             held == { j \in 1..Len(entityMap) :
                         entityKey(entityMap[j]) = entityKey(entity) }
         IN  IF held = {}
             THEN putEntities(entities, k + 1, Append(entityMap, entity))
             ELSE LET j == CHOOSE i \in held : TRUE
                  IN  putEntities(entities, k + 1,
                          [entityMap EXCEPT ![j].properties =
                              shallowMerge(@, entity.properties)])

\* Lines 109-115: the relations whose key no earlier relation has.
RECURSIVE uniqueRelations(_, _, _)
uniqueRelations(relations, k, relationSet) ==
    IF k > Len(relations) THEN <<>>
    ELSE IF relationKey(relations[k]) \in relationSet
    THEN uniqueRelations(relations, k + 1, relationSet)
    ELSE <<relations[k]>>
         \o uniqueRelations(relations, k + 1,
                            relationSet \cup {relationKey(relations[k])})

\* Lines 90-120: the value extract returns.
deduplicated(entities, relations) ==
    [entities |-> putEntities(entities, 1, <<>>),
     relations |-> uniqueRelations(relations, 1, {})]

ExtractInit ==
    /\ extractPc = "chunk"
    /\ chunkCount \in 1..MaxChunks
    /\ chunkReplies = <<>>
    /\ allEntities = <<>>
    /\ allRelations = <<>>
    /\ extractResult = None

\* Lines 84-88: `await this.extractFromChunk(chunk)` resolves and its result
\* is pushed; after the last chunk lines 90-120 run and extract returns.
ExtractFromChunk ==
    /\ extractPc = "chunk"
    /\ \E tokens \in ReplyContents :
        LET result == resultOfReply(tokens)
            entities == allEntities \o result.entities
            relations == allRelations \o result.relations
        IN  /\ chunkReplies' = Append(chunkReplies, tokens)
            /\ allEntities' = entities
            /\ allRelations' = relations
            /\ IF Len(chunkReplies) + 1 = chunkCount
               THEN /\ extractPc' = "returned"
                    /\ extractResult' = Some(deduplicated(entities, relations))
               ELSE UNCHANGED <<extractPc, extractResult>>
    /\ UNCHANGED chunkCount
    /\ UNCHANGED notExtractVars

\* Line 129: chatCompletion rejects; nothing catches it.
ChatCompletionThrows ==
    /\ extractPc = "chunk"
    /\ extractPc' = "thrown"
    /\ UNCHANGED <<chunkCount, chunkReplies, allEntities, allRelations,
                   extractResult>>
    /\ UNCHANGED notExtractVars

(***************************************************************************)
(*                            SPECIFICATIONS                               *)
(***************************************************************************)

\* The idle values of each part, for the specifications of the other parts.
EngineIdle ==
    /\ config = [e \in Engines |-> [kind |-> "databaseUrl", handle |-> "Pool",
                                    connected |-> FALSE]]
    /\ connection = [e \in Engines |-> Undefined]
    /\ enginePc = [e \in Engines |-> "idle"]
    /\ createError = [e \in Engines |-> NoError]
    /\ endCalls = [e \in Engines |-> 0]
    /\ closeCalls = [e \in Engines |-> 0]

ChatIdle ==
    /\ requests = [r \in Requests |-> NewRequest(<<>>, {}, PlannerThrows)]
    /\ chatbotCache = {}

IngestIdle ==
    /\ ingestPc = "idle"
    /\ content = <<>>
    /\ embeddingInput = None
    /\ embedding = None
    /\ documents = {}
    /\ uuids = 0
    /\ graphWrites = 0
    /\ ingestResult = None

QueryIdle ==
    /\ queryPc = "idle"
    /\ nodeIds = {}
    /\ maxDepth = 0
    /\ traversal = {}
    /\ subgraphNodes = {}
    /\ subgraphEdges = {}
    /\ storeModified = FALSE
    /\ writesLeft = 0

PathIdle ==
    /\ pathsPc = "idle"
    /\ fromId = ""
    /\ toId = ""
    /\ pathDepth = 0
    /\ pathRows = <<>>
    /\ paths = <<>>

PlanIdle ==
    /\ planArg = Plan(FALSE, "", None, <<>>)
    /\ planResult = None

KeyIdle ==
    /\ keyArgs = <<>>
    /\ cacheKeys = <<>>

CacheIdle ==
    /\ cacheCalls = <<>>
    /\ statements = 0
    /\ hitsApplied = <<>>

RetryIdle ==
    /\ retryPc = "idle"
    /\ attempt = 0
    /\ requestInit = 0
    /\ fetchCalls = <<>>
    /\ sleeps = <<>>
    /\ retryResult = None

ChunkIdle ==
    /\ chunkText = <<>>
    /\ chunks = None

ExtractIdle ==
    /\ extractPc = "idle"
    /\ chunkCount = 0
    /\ chunkReplies = <<>>
    /\ allEntities = <<>>
    /\ allRelations = <<>>
    /\ extractResult = None

StoreEmpty ==
    /\ knowledgeNodes = {}
    /\ knowledgeEdges = {}

BuildCallIdle ==
    /\ buildPc = "idle"
    /\ extraction = [entities |-> <<>>, relations |-> <<>>]
    /\ embeddingResults = <<>>
    /\ nameToId = {}
    /\ nodeCalls = <<>>
    /\ edgeCalls = <<>>
    /\ nextEntity = 1
    /\ nextRelation = 1
    /\ nodesCreated = 0
    /\ edgesCreated = 0
    /\ buildResult = None

BuildIdle ==
    /\ StoreEmpty
    /\ BuildCallIdle

HybridIdle ==
    /\ hybridPc = "idle"
    /\ hybridTopK = 1
    /\ vectorResults = Pending
    /\ textResults = Pending
    /\ hybridResult = <<>>

InitEngine == EngineInit /\ HybridIdle /\ ChatIdle /\ IngestIdle /\ BuildIdle
    /\ QueryIdle /\ PathIdle /\ PlanIdle /\ KeyIdle
    /\ CacheIdle /\ RetryIdle /\ ChunkIdle /\ ExtractIdle

NextEngine ==
    \E e \in Engines :
        \/ AcquireConnection(e)
        \/ ConnectDb(e)
        \/ VerifyEmbeddingDimensions(e)
        \/ CatchCreate(e)
        \/ Close(e)

SpecEngine == InitEngine /\ [][NextEngine]_vars

InitHybrid == HybridInit /\ EngineIdle /\ ChatIdle /\ IngestIdle /\ BuildIdle
    /\ QueryIdle /\ PathIdle /\ PlanIdle /\ KeyIdle
    /\ CacheIdle /\ RetryIdle /\ ChunkIdle /\ ExtractIdle

NextHybrid == FindByVector \/ FindByText \/ HybridMerge

SpecHybrid == InitHybrid /\ [][NextHybrid]_vars

InitChat == ChatInit /\ EngineIdle /\ HybridIdle /\ IngestIdle /\ BuildIdle
    /\ QueryIdle /\ PathIdle /\ PlanIdle /\ KeyIdle
    /\ CacheIdle /\ RetryIdle /\ ChunkIdle /\ ExtractIdle

NextChat ==
    \E r \in Requests :
        \/ AnalyzeRequest(r)
        \/ FindByHash(r)
        \/ IncrementHitCount(r)
        \/ CreateEmbedding(r)
        \/ SearchVector(r)
        \/ SearchText(r)
        \/ HybridSearchReturns(r)
        \/ GetContextForEntities(r)
        \/ FinalCompletion(r)
        \/ SaveCache(r)

SpecChat == InitChat /\ [][NextChat]_vars

InitIngest == IngestInit /\ EngineIdle /\ HybridIdle /\ ChatIdle /\ BuildIdle
    /\ QueryIdle /\ PathIdle /\ PlanIdle /\ KeyIdle
    /\ CacheIdle /\ RetryIdle /\ ChunkIdle /\ ExtractIdle

NextIngest ==
    \/ CreateDocumentEmbedding
    \/ UpsertDocument
    \/ BuildGraphFromDocument

SpecIngest == InitIngest /\ [][NextIngest]_vars

InitBuild == BuildInit /\ EngineIdle /\ HybridIdle /\ ChatIdle /\ IngestIdle
    /\ QueryIdle /\ PathIdle /\ PlanIdle /\ KeyIdle
    /\ CacheIdle /\ RetryIdle /\ ChunkIdle /\ ExtractIdle

NextBuild ==
    \/ Extract
    \/ CreateEntityEmbeddings
    \/ UpsertNode
    \/ NodesDone
    \/ UpsertEdge
    \/ BuildReturns

SpecBuild == InitBuild /\ [][NextBuild]_vars

InitQuery ==
    QueryInit /\ EngineIdle /\ HybridIdle /\ ChatIdle /\ IngestIdle
    /\ BuildCallIdle /\ PathIdle /\ PlanIdle /\ KeyIdle
    /\ CacheIdle /\ RetryIdle /\ ChunkIdle /\ ExtractIdle

NextQuery ==
    \/ EmptySubgraph
    \/ TraverseBatch
    \/ FetchNodes
    \/ FetchEdges
    \/ OtherRequestWrites

SpecQuery == InitQuery /\ [][NextQuery]_vars

InitConcurrentQuery ==
    ConcurrentQueryInit /\ EngineIdle /\ HybridIdle /\ ChatIdle /\ IngestIdle
    /\ BuildCallIdle /\ PathIdle /\ PlanIdle /\ KeyIdle /\ CacheIdle /\ RetryIdle /\ ChunkIdle /\ ExtractIdle

SpecConcurrentQuery == InitConcurrentQuery /\ [][NextQuery]_vars

InitPaths ==
    PathInit /\ EngineIdle /\ HybridIdle /\ ChatIdle /\ IngestIdle
    /\ BuildCallIdle /\ QueryIdle /\ PlanIdle /\ KeyIdle
    /\ CacheIdle /\ RetryIdle /\ ChunkIdle /\ ExtractIdle

NextPaths ==
    \/ SearchPaths
    \/ NoPaths
    \/ HydratePaths

SpecPaths == InitPaths /\ [][NextPaths]_vars

InitPlan ==
    PlanInit /\ EngineIdle /\ HybridIdle /\ ChatIdle /\ IngestIdle
    /\ BuildIdle /\ QueryIdle /\ PathIdle /\ KeyIdle /\ CacheIdle /\ RetryIdle /\ ChunkIdle /\ ExtractIdle

NextPlan ==
    \/ NormalizeSearchPlan

SpecPlan == InitPlan /\ [][NextPlan]_vars

InitKey ==
    KeyInit /\ EngineIdle /\ HybridIdle /\ ChatIdle /\ IngestIdle
    /\ BuildIdle /\ QueryIdle /\ PathIdle /\ PlanIdle /\ CacheIdle /\ RetryIdle /\ ChunkIdle /\ ExtractIdle

NextKey ==
    \/ ComputeCacheKeys

SpecKey == InitKey /\ [][NextKey]_vars

InitCache ==
    /\ CacheInit
    /\ requests = [r \in Requests |-> NewRequest(<<>>, {}, PlannerThrows)]
    /\ EngineIdle /\ HybridIdle /\ IngestIdle /\ BuildIdle /\ QueryIdle
    /\ PathIdle /\ PlanIdle /\ KeyIdle /\ RetryIdle /\ ChunkIdle /\ ExtractIdle

NextCache ==
    \/ BeginStatements
    \/ CompleteSaves
    \/ CompleteIncrements
    \/ StatementsFail

SpecCache == InitCache /\ [][NextCache]_vars

InitRetry ==
    RetryInit /\ EngineIdle /\ HybridIdle /\ ChatIdle /\ IngestIdle
    /\ BuildIdle /\ QueryIdle /\ PathIdle /\ PlanIdle /\ KeyIdle /\ CacheIdle
    /\ ChunkIdle /\ ExtractIdle

NextRetry ==
    \/ FetchResponds
    \/ FetchThrows
    \/ Sleep

SpecRetry == InitRetry /\ [][NextRetry]_vars

InitChunk ==
    ChunkInit /\ EngineIdle /\ HybridIdle /\ ChatIdle /\ IngestIdle
    /\ BuildIdle /\ QueryIdle /\ PathIdle /\ PlanIdle /\ KeyIdle /\ CacheIdle
    /\ RetryIdle /\ ExtractIdle

NextChunk ==
    \/ SplitIntoChunks

SpecChunk == InitChunk /\ [][NextChunk]_vars

InitExtract ==
    ExtractInit /\ EngineIdle /\ HybridIdle /\ ChatIdle /\ IngestIdle
    /\ BuildIdle /\ QueryIdle /\ PathIdle /\ PlanIdle /\ KeyIdle /\ CacheIdle
    /\ RetryIdle /\ ChunkIdle

NextExtract ==
    \/ ExtractFromChunk
    \/ ChatCompletionThrows

SpecExtract == InitExtract /\ [][NextExtract]_vars

(***************************************************************************)
(*                              PROPERTIES                                 *)
(***************************************************************************)

\* C1: close() on an engine built from an external client/pool never ends
\* that handle (its end() count stays 0 whatever number of close() calls),
\* and close() on an engine built from a connection URL ends the pool the
\* engine created (once close() has been called, end() has been called).
C1_CloseRespectsOwnership ==
    \A e \in Engines :
        enginePc[e] = "ready" =>
            /\ config[e].kind = "pgClient" => endCalls[e] = 0
            /\ (config[e].kind = "databaseUrl" /\ closeCalls[e] >= 1)
                    => endCalls[e] >= 1

\* C1 witness: an external-client engine and a URL engine have both been
\* closed; only the URL engine's pool saw end().
C1_Witness ==
    \E e1, e2 \in Engines :
        /\ enginePc[e1] = "ready" /\ config[e1].kind = "pgClient"
        /\ closeCalls[e1] >= 1 /\ endCalls[e1] = 0
        /\ enginePc[e2] = "ready" /\ config[e2].kind = "databaseUrl"
        /\ closeCalls[e2] >= 1 /\ endCalls[e2] >= 1

\* C2: when create() rejects after the store handle was obtained (connect
\* failure, provider error or dimension mismatch on the probe), an owned
\* pool has been ended exactly once by the time the error is surfaced and a
\* borrowed external handle has not been ended at all.
C2_CreateFailureReleasesOwned ==
    \A e \in Engines :
        (enginePc[e] = "rejected" /\ connection[e] # Undefined) =>
            endCalls[e] = IF config[e].kind = "databaseUrl" THEN 1 ELSE 0

\* C2 witness: a URL engine rejected on the dimension probe with its pool
\* ended once, and an external-client engine rejected on connect with its
\* client untouched.
C2_Witness ==
    \E e1, e2 \in Engines :
        /\ enginePc[e1] = "rejected" /\ config[e1].kind = "databaseUrl"
        /\ createError[e1] = "Embedding dimension mismatch"
        /\ endCalls[e1] = 1
        /\ enginePc[e2] = "rejected" /\ config[e2].kind = "pgClient"
        /\ createError[e2] = "connection failed"
        /\ endCalls[e2] = 0

\* ---- hybrid search ----

\* The ids of a result list, in order.
ResultIds(res) == [i \in 1..Len(res) |-> res[i].id]

\* The 1-based rank of id d in a hit list that contains it.
RankIn(list, d) == CHOOSE i \in 1..Len(list) : list[i] = d

InList(list, d) == \E i \in 1..Len(list) : list[i] = d

\* The reference RRF score of d: 1/(60 + rank) summed over the lists in
\* which d appears.
RefScore(vec, text, d) ==
    IF InList(vec, d) /\ InList(text, d)
    THEN RatAdd(Rat(1, 60 + RankIn(vec, d)), Rat(1, 60 + RankIn(text, d)))
    ELSE IF InList(vec, d) THEN Rat(1, 60 + RankIn(vec, d))
    ELSE Rat(1, 60 + RankIn(text, d))

\* C7: hybrid_search returns the reference RRF result.  Every entry is a
\* document of one of the two lists carrying its reference score; no id
\* occurs twice; the entries are in descending score order; there are
\* min(k, number of distinct documents) of them; and no omitted document
\* scores higher than a returned one.
C7_HybridIsReferenceRRF ==
    hybridPc = "merged" =>
        LET res == hybridResult
            cand == {d \in DocIds : InList(vectorResults, d) \/ InList(textResults, d)}
            ids == {res[i].id : i \in 1..Len(res)}
        IN  /\ \A i \in 1..Len(res) :
                  /\ res[i].id \in cand
                  /\ RatEq(res[i].combinedScore,
                           RefScore(vectorResults, textResults, res[i].id))
            /\ \A i, j \in 1..Len(res) : i # j => res[i].id # res[j].id
            /\ \A i, j \in 1..Len(res) :
                  i < j => ~RatLess(res[i].combinedScore, res[j].combinedScore)
            /\ Len(res) = Min(hybridTopK, Cardinality(cand))
            /\ \A d \in cand \ ids : \A i \in 1..Len(res) :
                  ~RatLess(res[i].combinedScore,
                           RefScore(vectorResults, textResults, d))

\* C7 witness: a merge in which one document is in both lists, another in
\* one list only, and the candidate set is larger than k (truncation).
C7_Witness ==
    /\ hybridPc = "merged"
    /\ \E d \in DocIds : InList(vectorResults, d) /\ InList(textResults, d)
    /\ \E d \in DocIds : InList(vectorResults, d) /\ ~InList(textResults, d)
    /\ Cardinality({d \in DocIds : InList(vectorResults, d) \/ InList(textResults, d)})
            > hybridTopK
    /\ Len(hybridResult) = hybridTopK
    /\ hybridTopK >= 2

\* The fusion scenario: vector hits [A, B], text hits [B, C], merged with a
\* k that holds the three documents.
FusionScenario ==
    /\ hybridPc = "merged"
    /\ vectorResults = <<"A", "B">>
    /\ textResults = <<"B", "C">>
    /\ hybridTopK >= 3

\* C8 as stated: in the fusion scenario the result is B, A, C with scores
\* 1/61 + 1/61, 1/61 and 1/62.
C8_AsStated ==
    FusionScenario =>
        /\ ResultIds(hybridResult) = <<"B", "A", "C">>
        /\ RatEq(hybridResult[1].combinedScore, RatAdd(Rat(1, 61), Rat(1, 61)))
        /\ RatEq(hybridResult[2].combinedScore, Rat(1, 61))
        /\ RatEq(hybridResult[3].combinedScore, Rat(1, 62))

\* C8 amended: in the fusion scenario the result is B, A, C with scores
\* 1/62 + 1/61 (B is second in the vector list and first in the text list),
\* 1/61 and 1/62.
C8_FusionScenario ==
    FusionScenario =>
        /\ ResultIds(hybridResult) = <<"B", "A", "C">>
        /\ RatEq(hybridResult[1].combinedScore, RatAdd(Rat(1, 62), Rat(1, 61)))
        /\ RatEq(hybridResult[2].combinedScore, Rat(1, 61))
        /\ RatEq(hybridResult[3].combinedScore, Rat(1, 62))

\* C8 witness: the scenario has been merged.
C8_Witness ==
    /\ FusionScenario
    /\ hybridTopK = 3
    /\ Len(hybridResult) = 3

\* ---- the chatbot pipeline ----

\* The calls a request has made so far, by operation and outcome.
Made(q, op, ok) == \E i \in 1..Len(q.log) : q.log[i].op = op /\ q.log[i].ok = ok
Calls(q, op) == {i \in 1..Len(q.log) : q.log[i].op = op}
OpsOf(q) == [i \in 1..Len(q.log) |-> q.log[i].op]
LastCall(q) == q.log[Len(q.log)]

\* C3: a request whose cache lookup found an entry makes, after the planning
\* call and the lookup, only the incrementHitCount call (no embedding, no
\* search, no graph lookup, no second LLM call, no save); once it has
\* returned it has called incrementHitCount exactly once and its result is
\* {id: "cached", content: entry.response}.
C3_CacheHitShortCircuits ==
    \A r \in Requests :
        LET q == requests[r] IN
        q.cached # None =>
            /\ \E n \in 2..3 :
                  OpsOf(q) = SubSeq(<<"chatCompletion:plan", "findByHash",
                                      "incrementHitCount">>, 1, n)
            /\ q.pc \in {"increment", "done", "failed"}
            /\ q.pc = "done" =>
                  /\ Cardinality(Calls(q, "incrementHitCount")) = 1
                  /\ q.result = Some([id |-> "cached",
                                      content |-> q.cached[1].response,
                                      rag |-> None])

\* A request was served from an entry that another request saved, and the
\* entry's hit count went up.
C3_Witness ==
    \E r \in Requests :
        /\ requests[r].pc = "done"
        /\ requests[r].cached # None
        /\ requests[r].result[1].id = "cached"
        /\ \E row \in chatbotCache :
              /\ row.requestHash = CacheKey(requests[r])
              /\ row.hitCount = 1
              /\ row.response = requests[r].result[1].content

\* The planner replies that analyzeRequest falls back on.
IsFallbackReply(reply) ==
    \/ reply.kind \in {"no-braces", "unparsable"}
    \/ reply.kind = "object" /\ ~SchemaOk(reply)

\* C4: when the planner's reply has no JSON object, does not parse or fails
\* the schema, the request goes on (the planning call counts as succeeded)
\* with the plan {should_search: true, search_query: <last user message>}
\* and top_k 5: the embedding is made of the last user message and
\* hybridSearch is called with it and 5, and the retrieval is not skipped:
\* a request that missed the cache reaches the final completion only after
\* hybridSearch.
C4_FallbackPlan ==
    \A r \in Requests :
        LET q == requests[r]
            last == lastUserMessage(q.messages)
        IN
        (q.reply # None /\ IsFallbackReply(q.reply[1])) =>
            /\ q.log[1] = Call("chatCompletion:plan", TRUE, <<last>>)
            /\ q.searchPlan.should_search
            /\ q.searchPlan.search_query = last
            /\ TopKOf(EffectivePlan(q)) = 5
            /\ \A i \in Calls(q, "createEmbedding") : q.log[i].arg = <<last>>
            /\ \A i \in Calls(q, "hybridSearch") :
                  /\ q.log[i].arg[1] = last
                  /\ q.log[i].arg[2] = 5
            /\ Calls(q, "chatCompletion:final") # {} =>
                  Made(q, "hybridSearch", TRUE)
            /\ (q.pc = "done" /\ q.cached = None) =>
                  /\ Made(q, "hybridSearch", TRUE)
                  /\ q.result[1].rag[1].plan.top_k = Some(Num(5))

\* A reply that fails the schema (top_k 9) in a conversation whose last user
\* message is not its first: retrieval ran with the last one and k = 5.
C4_Witness ==
    \E r \in Requests :
        LET q == requests[r] IN
        /\ q.reply # None
        /\ q.reply[1].kind = "object"
        /\ q.reply[1].wellTyped
        /\ ~SchemaOk(q.reply[1])
        /\ lastUserMessage(q.messages) = "y"
        /\ \E i \in Calls(q, "hybridSearch") :
              q.log[i].arg[1] = "y" /\ q.log[i].arg[2] = 5
        /\ q.pc = "done"

\* The position of each call in the pipeline.
StageOf(op) ==
    CASE op = "chatCompletion:plan" -> 1
      [] op = "findByHash" -> 2
      [] op = "incrementHitCount" -> 3
      [] op = "createEmbedding" -> 3
      [] op \in {"findByVector", "findByText", "hybridSearch"} -> 4
      [] op = "getContextForEntities" -> 5
      [] op = "chatCompletion:final" -> 6
      [] op = "save" -> 7

\* C5: in a request that misses the cache the calls are made in pipeline
\* order, each after the previous one has returned: the planning call
\* first, then the lookup, then embedding, hybrid search and graph lookup,
\* then the final completion, then the save.  The final completion is
\* called only after the embedding and the search the plan asks for (and
\* the graph lookup, for a plan with entities) have returned, and the save
\* only after the final completion has returned.
C5_PipelineOrder ==
    \A r \in Requests :
        LET q == requests[r] IN
        q.cached = None =>
            /\ \A i, j \in 1..Len(q.log) :
                  i < j => /\ StageOf(q.log[i].op) < StageOf(q.log[j].op)
                           /\ q.log[i].ok
            /\ Calls(q, "findByHash") # {} => Made(q, "chatCompletion:plan", TRUE)
            /\ Calls(q, "createEmbedding") # {} => Made(q, "findByHash", TRUE)
            /\ q.pc = "search" => Made(q, "createEmbedding", TRUE)
            /\ Calls(q, "hybridSearch") # {} => Made(q, "createEmbedding", TRUE)
            /\ Calls(q, "getContextForEntities") # {} =>
                  Made(q, "findByHash", TRUE)
            /\ Calls(q, "chatCompletion:final") # {} =>
                  /\ Made(q, "findByHash", TRUE)
                  /\ q.searchPlan.should_search =>
                        /\ Made(q, "createEmbedding", TRUE)
                        /\ Made(q, "hybridSearch", TRUE)
                  /\ q.searchPlan.identified_entities # <<>> =>
                        Made(q, "getContextForEntities", TRUE)
            /\ Calls(q, "save") # {} => Made(q, "chatCompletion:final", TRUE)

\* A request that missed, retrieved, enriched, completed and saved.
C5_Witness ==
    \E r \in Requests :
        /\ requests[r].pc = "done"
        /\ requests[r].cached = None
        /\ OpsOf(requests[r]) =
              <<"chatCompletion:plan", "findByHash", "createEmbedding",
                "hybridSearch", "getContextForEntities",
                "chatCompletion:final", "save">>

\* C6: a failed call is the last call its request makes; the request fails
\* with that call's error and returns nothing.  A request fails only so.
\* The cache holds only responses of final completions that succeeded, and
\* a request calls save only after its final completion succeeded.
C6_ErrorsPropagate ==
    /\ \A r \in Requests :
          LET q == requests[r] IN
          /\ \A i \in 1..Len(q.log) :
                ~q.log[i].ok =>
                    /\ i = Len(q.log)
                    /\ q.pc = "failed"
                    /\ q.error = q.log[i].op
                    /\ q.result = None
          /\ q.pc = "failed" => (q.log # <<>> /\ ~LastCall(q).ok)
          /\ q.pc # "failed" => q.error = NoError
          /\ Calls(q, "save") # {} => Made(q, "chatCompletion:final", TRUE)
    /\ \A row \in chatbotCache :
          \E r \in Requests :
              /\ Made(requests[r], "chatCompletion:final", TRUE)
              /\ Made(requests[r], "save", TRUE)
              /\ row.response = Answer(r)
              /\ row.requestHash = CacheKey(requests[r])

\* Every request has failed, one of them in its final completion, and the
\* cache is still empty.
C6_Witness ==
    /\ \A r \in Requests : requests[r].pc = "failed"
    /\ \E r \in Requests : requests[r].error = "chatCompletion:final"
    /\ \E r \in Requests :
          requests[r].error \in {"hybridSearch", "findByVector", "findByText"}
    /\ chatbotCache = {}

\* ---- ingestion ----

\* C9: once ingestDocument has resolved, the documents table holds exactly
\* one row more than before the call, and that row's content is the content
\* argument, character for character, whether or not the text sent to the
\* embedding provider was cut.
C9_IngestStoresContentVerbatim ==
    ingestPc = "done" =>
        \E before \in InitialDocuments :
            \E row \in documents \ before :
                /\ documents = before \cup {row}
                /\ row.content = content
                /\ row.embedding = EMBEDDING_DIMENSIONS
                /\ uuids = 1

\* An ingest resolved whose embedding input was cut short of the content.
C9_Witness ==
    /\ ingestPc = "done"
    /\ Length(content) > MAX_EMBEDDING_CHARS
    /\ Length(embeddingInput[1]) < Length(content)
    /\ \E row \in documents : row.content = content

\* The position at which the k-th run of s starts.
RECURSIVE OffsetOf(_, _)
OffsetOf(s, k) == IF k = 1 THEN 0 ELSE OffsetOf(s, k - 1) + s[k - 1].n

\* The positions <= limit at which "\n\n" occurs in s.
ParagraphBoundaries(s, limit) ==
    UNION { { OffsetOf(s, k) + j : j \in 0..(s[k].n - 2) }
              : k \in {i \in 1..Len(s) : s[i].ch = "\n"} }
    \cap 0..limit

\* t consists of the first `len` characters of s.
IsPrefixOfLength(t, s, len) ==
    /\ Length(t) = len
    /\ Len(t) <= Len(s)
    /\ \A k \in 1..Len(t) :
          /\ t[k].ch = s[k].ch
          /\ IF k < Len(t) THEN t[k].n = s[k].n ELSE t[k].n <= s[k].n

\* C10: the text sent to the embedding provider is the content itself when
\* the content has at most 6000 characters; when it has more and the last
\* "\n\n" at or before position 6000 is at a position greater than 3000,
\* the text is exactly the content before that position.
C10_EmbeddingInputTruncation ==
    embeddingInput # None =>
        LET input == embeddingInput[1]
            boundaries == ParagraphBoundaries(content, 6000)
        IN  /\ Length(content) <= 6000 => input = content
            /\ (Length(content) > 6000 /\ boundaries # {}) =>
                  LET last == CHOOSE p \in boundaries :
                                  \A b \in boundaries : b <= p
                  IN  last > 3000 => IsPrefixOfLength(input, content, last)

\* 5900 A's, a blank line, 2000 B's: the provider was sent the 5900 A's.
C10_Witness ==
    /\ content = <<Run("A", 5900), Run("\n", 2), Run("B", 2000)>>
    /\ embeddingInput = Some(<<Run("A", 5900)>>)
    /\ ingestPc = "done"

\* The greatest position <= limit holding "。" or "\n" in s, or -1.
LastSentenceBoundary(s, limit) ==
    LET ends == { Min(limit, OffsetOf(s, k) + s[k].n - 1)
                    : k \in {i \in 1..Len(s) : /\ s[i].ch \in {FullStop, "\n"}
                                               /\ OffsetOf(s, i) <= limit} }
    IN  IF ends = {} THEN -1
        ELSE CHOOSE p \in ends : \A e \in ends : e <= p

\* No "\n\n" at or before position 6000 lies at a position greater than 3000.
NoParagraphQualifies(s) ==
    \A b \in ParagraphBoundaries(s, 6000) : b <= 3000

\* C11: for a content of more than 6000 characters in which no paragraph
\* boundary qualifies, the text sent to the embedding provider is the
\* content up to and including the last "。" or newline at or before
\* position 6000 when that position is greater than 3000, and the first
\* 6000 characters otherwise.
C11_SentenceBoundaryAsStated ==
    (/\ embeddingInput # None
     /\ Length(content) > 6000
     /\ NoParagraphQualifies(content)) =>
        LET last == LastSentenceBoundary(content, 6000)
        IN  IF last > 3000
            THEN IsPrefixOfLength(embeddingInput[1], content, last + 1)
            ELSE IsPrefixOfLength(embeddingInput[1], content, 6000)

\* 3001 A's, one "。", 3000 A's: the provider is sent the first 6000
\* characters, not the 3002 characters that end with the "。".
C11_Divergence ==
    /\ content = <<Run("A", 3001), Run(FullStop, 1), Run("A", 3000)>>
    /\ embeddingInput = Some(<<Run("A", 3001), Run(FullStop, 1), Run("A", 2998)>>)

\* ---- graph construction ----

\* Some extracted entity has this name, letter case aside.
NamesAnEntity(name) ==
    \E i \in 1..Len(extraction.entities) :
        toLowerCase(extraction.entities[i].name) = toLowerCase(name)

\* The extracted relations whose two endpoints name extracted entities.
ResolvableRelations ==
    SelectSeq(extraction.relations,
              LAMBDA rel : NamesAnEntity(rel.source) /\ NamesAnEntity(rel.target))

\* C12: when buildGraphFromDocument has resolved, upsertNode was invoked
\* once per extracted entity, in order, and upsertEdge once per extracted
\* relation whose source and target both name an extracted entity (letter
\* case aside), in order, joining nodes of entities with those names; no
\* other edge was written; nodesCreated and edgesCreated are the numbers
\* of upsertNode and upsertEdge invocations.
C12_BuildGraphCounts ==
    buildPc = "done" =>
        /\ Len(nodeCalls) = Len(extraction.entities)
        /\ \A i \in 1..Len(nodeCalls) :
              /\ nodeCalls[i].name = extraction.entities[i].name
              /\ nodeCalls[i].type = extraction.entities[i].type
        /\ Len(edgeCalls) = Len(ResolvableRelations)
        /\ \A k \in 1..Len(edgeCalls) :
              /\ edgeCalls[k].relationType = ResolvableRelations[k].relationType
              /\ \E i, j \in 1..Len(nodeCalls) :
                    /\ edgeCalls[k].sourceId = nodeCalls[i].id
                    /\ toLowerCase(nodeCalls[i].name) =
                          toLowerCase(ResolvableRelations[k].source)
                    /\ edgeCalls[k].targetId = nodeCalls[j].id
                    /\ toLowerCase(nodeCalls[j].name) =
                          toLowerCase(ResolvableRelations[k].target)
        /\ {e.id : e \in knowledgeEdges} = {edgeCalls[k].id : k \in 1..Len(edgeCalls)}
        /\ \A i \in 1..Len(nodeCalls) :
              nodeCalls[i].id \in {n.id : n \in knowledgeNodes}
        /\ \A n \in knowledgeNodes :
              \/ \E i \in 1..Len(nodeCalls) : n = nodeCalls[i]
              \/ n \in UNION EarlierNodes
        /\ buildResult = Some([nodesCreated |-> Len(nodeCalls),
                               edgesCreated |-> Len(edgeCalls)])

\* Entities [Aspirin, Fever] with relations Aspirin -> Fever and
\* Unknown -> Fever: 2 nodes and 1 edge.
C12_Witness ==
    /\ buildPc = "done"
    /\ extraction.entities = << [name |-> Aspirin, type |-> drug],
                                [name |-> Fever, type |-> disease] >>
    /\ Len(extraction.relations) = 2
    /\ extraction.relations[1].source = Aspirin
    /\ extraction.relations[2].source = Unknown
    /\ buildResult = Some([nodesCreated |-> 2, edgesCreated |-> 1])

\* Some entity's embedding has a length other than the store's dimension.
SomeEmbeddingMismatched ==
    \E j \in 1..Len(embeddingResults) :
        embeddingResults[j] # None /\ embeddingResults[j][1] # EMBEDDING_DIMENSIONS

\* C13: when the embedding of any extracted entity, whatever its position,
\* has a length other than D, buildGraphFromDocument writes no node and no
\* edge, does not resolve, and fails with the dimension-mismatch error.
C13_MismatchBeforeAnyWriteAsStated ==
    SomeEmbeddingMismatched =>
        /\ nodeCalls = <<>>
        /\ edgeCalls = <<>>
        /\ knowledgeNodes \in EarlierNodes
        /\ knowledgeEdges = {}
        /\ buildPc \in {"nodes", "failed"}
        /\ buildPc = "failed" => buildResult = Some("Embedding dimension mismatch")

\* The second entity's embedding is too short: the call has failed with the
\* dimension-mismatch error and the first entity's node is in the store.
C13_Divergence ==
    /\ buildPc = "failed"
    /\ buildResult = Some("Embedding dimension mismatch")
    /\ embeddingResults = <<Some(EMBEDDING_DIMENSIONS), Some(2)>>
    /\ Len(nodeCalls) = 1
    /\ nodeCalls[1] \in knowledgeNodes

\* C19: the node ids given to entities, in this call or an earlier one,
\* depend on the lowercased name and the type only: two entities whose names
\* are equal letter case aside and whose types are equal get the same id (and
\* so one row), and two entities with the same name and different types get
\* different ids; generateNodeId("Aspirin", "drug") is
\* generateNodeId("aspirin", "drug") and is not
\* generateNodeId("Aspirin", "chemical").
C19_NodeIdDeterminism ==
    /\ \A i \in 1..Len(nodeCalls) :
          \A b \in knowledgeNodes \cup { nodeCalls[j] : j \in 1..Len(nodeCalls) } :
              LET a == nodeCalls[i]
              IN  /\ (toLowerCase(a.name) = toLowerCase(b.name)
                         /\ a.type = b.type) => a.id = b.id
                  /\ (a.name = b.name /\ a.type # b.type) => a.id # b.id
    /\ \A i \in 1..Len(nodeCalls) :
          nodeCalls[i].id = generateNodeId(extraction.entities[i].name,
                                           extraction.entities[i].type)
    /\ generateNodeId(Aspirin, drug) = generateNodeId(aspirin, drug)
    /\ generateNodeId(Aspirin, drug) # generateNodeId(Aspirin, chemical)

\* "Aspirin" the drug was upserted into the row an earlier call made for
\* "aspirin" the drug, and "Aspirin" the chemical into another.
C19_Witness ==
    /\ buildPc = "done"
    /\ Len(nodeCalls) = 2
    /\ nodeCalls[1].name = Aspirin
    /\ nodeCalls[2].name = Aspirin
    /\ nodeCalls[1].type = drug
    /\ nodeCalls[2].type = chemical
    /\ nodeCalls[1].id = generateNodeId(aspirin, drug)
    /\ Cardinality(knowledgeNodes) = 2

\* ---- graph queries ----

\* C14: when getSubgraph has returned and no other request wrote to the
\* graph tables during the call, the edges it returns are exactly the
\* stored edges whose source and target both are seeds or ids of traversal
\* rows, and both endpoints of every returned edge are among the ids of the
\* returned nodes.
C14_SubgraphClosure ==
    (queryPc = "done" /\ ~storeModified) =>
        /\ subgraphEdges =
              { e \in knowledgeEdges :
                  /\ e.sourceId \in nodeIds \cup { t.id : t \in traversal }
                  /\ e.targetId \in nodeIds \cup { t.id : t \in traversal } }
        /\ \A e \in subgraphEdges :
              /\ \E n \in subgraphNodes : n.id = e.sourceId
              /\ \E n \in subgraphNodes : n.id = e.targetId

\* A subgraph was returned that holds some edge of the store and leaves
\* another out.
C14_Witness ==
    /\ queryPc = "done"
    /\ ~storeModified
    /\ subgraphEdges # {}
    /\ subgraphEdges # knowledgeEdges
    /\ traversal # {}

\* C15: no row returned by traverseBatch has the id of an ancestor on its
\* own walk: not the seed the walk started from, and not a node entered
\* earlier on the walk's path.
C15_TraversalAcyclicAsStated ==
    \A row \in traversal :
        /\ row.id # row.start_node_id
        /\ \A k \in 1..(Len(row.path) - 1) : row.path[k] # row.id

\* The store holds the edge a -> a and a is a seed: traverseBatch returns a
\* row for a itself, at depth 1, on the walk that started from a.
C15_Divergence ==
    /\ queryPc = "nodes"
    /\ nodeIds = {"a"}
    /\ knowledgeEdges = { EdgeRow("a", "a", Some(10)) }
    /\ \E row \in traversal :
          /\ row.id = "a"
          /\ row.start_node_id = "a"
          /\ row.depth = 1

\* ---- C16 ----

\* The node a walk from `start` over the edges es[1..k] stands on, each edge
\* taken from whichever end the walk is at; "" when the walk leaves the edges.
RECURSIVE NodeAfter(_, _, _)
NodeAfter(start, es, k) ==
    IF k = 0 THEN start
    ELSE LET at == NodeAfter(start, es, k - 1)
         IN  IF at = es[k].sourceId THEN es[k].targetId
             ELSE IF at = es[k].targetId THEN es[k].sourceId
             ELSE ""

NodesAlong(start, es) == [k \in 1..(Len(es) + 1) |-> NodeAfter(start, es, k - 1)]

RECURSIVE SumOfWeights(_, _)
SumOfWeights(es, k) ==
    IF k = 0 THEN 0
    ELSE SumOfWeights(es, k - 1)
         + (IF es[k].weight = None THEN 10 ELSE es[k].weight[1])

NoRepeat(seq) == \A i, j \in 1..Len(seq) : i # j => seq[i] # seq[j]

\* The paths that qualify: edge lists of the store of at most pathDepth edges
\* that walk from fromId to toId over stored nodes without repeating one.
QualifyingPaths ==
    { es \in UNION { [1..n -> knowledgeEdges] : n \in 0..pathDepth } :
        LET ns == NodesAlong(fromId, es)
        IN  /\ \A k \in 2..Len(ns) : ns[k] \in IdsOf(knowledgeNodes)
            /\ NoRepeat(ns)
            /\ ns[Len(ns)] = toId }

\* The k-th returned path walks the edge list es.
Walks(k, es) ==
    /\ pathRows[k].edge_ids = [i \in 1..Len(es) |-> es[i].id]
    /\ paths[k].path = [i \in 1..(Len(es) + 1) |-> NodeRow(NodesAlong(fromId, es)[i])]
    /\ paths[k].relations = [i \in 1..Len(es) |-> es[i].relationType]
    /\ paths[k].totalWeight = SumOfWeights(es, Len(es))

PathsAsClaimed ==
    /\ Len(paths) <= 5
    /\ \A k \in 1..(Len(paths) - 1) : paths[k].totalWeight <= paths[k + 1].totalWeight
    /\ \A k \in 1..Len(paths) :
          /\ Len(paths[k].path) >= 1
          /\ paths[k].path[1].id = fromId
          /\ paths[k].path[Len(paths[k].path)].id = toId
          /\ NoRepeat(paths[k].path)
          /\ Len(paths[k].relations) <= pathDepth
          /\ \E es \in QualifyingPaths : Walks(k, es)
    /\ \A es \in QualifyingPaths :
          (\A k \in 1..Len(paths) : ~Walks(k, es))
              => \A k \in 1..Len(paths) :
                    SumOfWeights(es, Len(es)) >= paths[k].totalWeight

\* C16: when fromId is the id of a stored node, findPaths returns at most 5
\* paths in ascending order of totalWeight; each starts at fromId, ends at
\* toId, repeats no node, walks at most maxDepth edges of the store in either
\* direction and weighs the sum of its edges' weights, 1.0 for an absent one;
\* no qualifying path left out is lighter than a returned one.
C16_FindPaths ==
    (pathsPc = "done" /\ fromId \in IdsOf(knowledgeNodes)) => PathsAsClaimed

\* A call that returns five paths and leaves a sixth out, one of them over
\* two edges, one against its edge's direction and over an edge without a
\* weight.
C16_Witness ==
    /\ pathsPc = "done"
    /\ fromId = "a" /\ toId = "b" /\ pathDepth = 2
    /\ Len(paths) = 5
    /\ \E es \in QualifyingPaths : \A k \in 1..Len(paths) : ~Walks(k, es)
    /\ \E k \in 1..Len(paths) : Len(paths[k].relations) = 2
    /\ \E k \in 1..Len(paths), e \in knowledgeEdges :
          /\ pathRows[k].edge_ids = <<e.id>>
          /\ e.sourceId = "b" /\ e.targetId = "a"
    /\ \E k \in 1..Len(paths), e \in knowledgeEdges :
          /\ pathRows[k].edge_ids = <<e.id>>
          /\ e.weight = None
          /\ paths[k].totalWeight = 10

\* C16 as stated, for every fromId.
C16_AsStated == pathsPc = "done" => PathsAsClaimed

\* ---- C18 ----

\* f is the floor of the finite number x.
IsFloorOf(f, x) == f * x.den <= x.num /\ x.num < (f + 1) * x.den

\* C18: normalizeSearchPlan(p).top_k is an integer in 1..8: floor(p.top_k)
\* when that lies in 1..8, 1 when it is below 1, 8 when it is above 8, and 5
\* when p.top_k is absent or not finite; every other field is unchanged.
C18_TopKClamp ==
    planResult # None =>
        LET p == planArg
            r == planResult[1]
        IN  /\ r.top_k # None
            /\ r.top_k[1].finite
            /\ r.top_k[1].den = 1
            /\ r.top_k[1].num \in 1..8
            /\ (p.top_k = None \/ ~p.top_k[1].finite) => r.top_k[1].num = 5
            /\ (p.top_k # None /\ p.top_k[1].finite) =>
                  \E f \in (0 - MaxNumerator - 1)..MaxNumerator :
                      /\ IsFloorOf(f, p.top_k[1])
                      /\ (f \in 1..8) => r.top_k[1].num = f
                      /\ f < 1 => r.top_k[1].num = 1
                      /\ f > 8 => r.top_k[1].num = 8
            /\ DOMAIN r = DOMAIN p
            /\ \A field \in DOMAIN p \ {"top_k"} : r[field] = p[field]

\* A call with top_k = 4.5 and an entity list, returning top_k = 4.
C18_Witness ==
    /\ planResult # None
    /\ planArg.identified_entities # <<>>
    /\ planArg.top_k = Some(Fraction(9, 2))
    /\ planResult[1].top_k = Some(Num(4))

\* ---- C17 ----

\* Two JavaScript values are equal up to the order of object properties at
\* every nesting level; array elements are compared index by index.
RECURSIVE EqualUpToKeyOrder(_, _)
EqualUpToKeyOrder(x, y) ==
    /\ x.t = y.t
    /\ Len(x.v) = Len(y.v)
    /\ CASE x.t = "object" ->
              \A i \in 1..Len(x.v) : \E j \in 1..Len(y.v) :
                  /\ x.v[i][1] = y.v[j][1]
                  /\ EqualUpToKeyOrder(x.v[i][2], y.v[j][2])
         [] x.t = "array" ->
              \A i \in 1..Len(x.v) : EqualUpToKeyOrder(x.v[i], y.v[i])
         [] OTHER -> x.v = y.v

RequestsEqualUpToKeyOrder(a, b) ==
    /\ EqualUpToKeyOrder(a.messages, b.messages)
    /\ EqualUpToKeyOrder(a.context, b.context)
    /\ EqualUpToKeyOrder(a.plan, b.plan)

\* One array is the other with two unequal neighbours swapped.
IsReordering(x, y) ==
    /\ Len(x.v) = Len(y.v)
    /\ \E i \in 1..(Len(x.v) - 1) :
          /\ ~EqualUpToKeyOrder(x.v[i], x.v[i + 1])
          /\ EqualUpToKeyOrder(x.v[i], y.v[i + 1])
          /\ EqualUpToKeyOrder(x.v[i + 1], y.v[i])
          /\ \A k \in 1..Len(x.v) : (k # i /\ k # i + 1) =>
                EqualUpToKeyOrder(x.v[k], y.v[k])

\* C17: two requests whose {messages, context, plan} are equal up to the
\* order of object keys at every nesting level get the same cache key; two
\* requests that differ in the order of their messages get different keys.
C17_CacheKeyStability ==
    (cacheKeys[1] # None /\ cacheKeys[2] # None) =>
        /\ RequestsEqualUpToKeyOrder(keyArgs[1], keyArgs[2])
              => cacheKeys[1] = cacheKeys[2]
        /\ IsReordering(keyArgs[1].messages, keyArgs[2].messages)
              => cacheKeys[1] # cacheKeys[2]

\* Two requests with the same key whose message, context, plan and nested
\* navigation_intent objects list their keys in different orders.
C17_Witness ==
    /\ cacheKeys[1] # None /\ cacheKeys[2] # None
    /\ cacheKeys[1] = cacheKeys[2]
    /\ Len(keyArgs[1].messages.v) = 2
    /\ keyArgs[1].messages # keyArgs[2].messages
    /\ keyArgs[1].context # keyArgs[2].context
    /\ keyArgs[1].plan # keyArgs[2].plan
    /\ \E i, j \in 1..Len(keyArgs[1].plan.v) :
          /\ keyArgs[1].plan.v[i][1] = "navigation_intent"
          /\ keyArgs[2].plan.v[j][1] = "navigation_intent"
          /\ keyArgs[1].plan.v[i][2] # keyArgs[2].plan.v[j][2]

\* ---- C20 ----

RowsOf(cache, h) == { row \in cache : row.requestHash = h }

\* The statement of caller c completes in this step.
Completes(c, op) ==
    /\ cacheCalls[c].op = op
    /\ cacheCalls[c].state = "sent"
    /\ cacheCalls'[c].state = "ok"

\* What one step may do to the rows of the hashes.
CacheRowsStep ==
    \A h \in Hashes :
        /\ Cardinality(RowsOf(chatbotCache', h)) <= 1
        /\ \A old \in RowsOf(chatbotCache, h) :
              \E new \in RowsOf(chatbotCache', h) :
                  /\ new.hitCount >= old.hitCount
                  /\ (\E c \in Callers :
                         Completes(c, "save") /\ cacheCalls[c].hash = h)
                        => new.hitCount = old.hitCount
                  /\ (\E c \in Callers :
                         Completes(c, "incrementHitCount") /\ cacheCalls[c].hash = h)
                        => new.hitCount = old.hitCount + 1

\* Every increment completed on a row is counted in its hit_count.
NoLostUpdate ==
    \A row \in chatbotCache : row.hitCount = hitsApplied[row.requestHash]

\* C20: over every interleaving of save and incrementHitCount statements
\* there is at most one row per hash and its hit_count never decreases; a
\* save on an existing hash leaves hit_count as it is, each incrementHitCount
\* on it adds exactly 1, and no increment is lost.
C20_CacheRows == [](NoLostUpdate) /\ [][CacheRowsStep]_vars

\* Two increments on one row that were both in flight at once have both been
\* counted, and a save in between left the count alone.
C20_Witness ==
    /\ \E row \in chatbotCache :
          /\ row.requestHash = "h1"
          /\ row.hitCount = 2
          /\ row.response = <<"answer", 2>>
    /\ \E c \in Callers :
          /\ cacheCalls[c].state = "sent"
          /\ cacheCalls[c].op = "save"
          /\ \E row \in cacheCalls[c].snapshot : row.hitCount = 1
    /\ statements = MaxStatements

\* ---- C27 ----

\* C27: for an engine built from a connection URL, whatever the number of
\* close() calls, end() is called on the owned pool at most once, and exactly
\* once as soon as close() has been called.
C27_CloseEndsOnceAsStated ==
    \A e \in Engines :
        (enginePc[e] = "ready" /\ config[e].kind = "databaseUrl") =>
            endCalls[e] = IF closeCalls[e] >= 1 THEN 1 ELSE 0

\* A URL engine closed twice: end() was called on its pool twice.
C27_Divergence ==
    \E e \in Engines :
        /\ enginePc[e] = "ready"
        /\ config[e].kind = "databaseUrl"
        /\ closeCalls[e] = 2
        /\ endCalls[e] = 2

\* ---- C25, C26 ----

\* The stored nodes one edge away, in either direction, from a node of S.
Neighbours(S) ==
    { n \in IdsOf(knowledgeNodes) :
        \E e \in knowledgeEdges :
            \/ e.sourceId \in S /\ e.targetId = n
            \/ e.targetId \in S /\ e.sourceId = n }

\* The nodes within k hops of a seed.
RECURSIVE WithinHops(_)
WithinHops(k) ==
    IF k = 0 THEN nodeIds
    ELSE WithinHops(k - 1) \cup Neighbours(WithinHops(k - 1))

\* The shortest hop distance of node n, which is within reach, from the
\* nearest seed.
HopDistance(n) ==
    CHOOSE k \in 0..Cardinality(GraphNodeIds) :
        /\ n \in WithinHops(k)
        /\ \A j \in 0..(k - 1) : n \notin WithinHops(j)

\* traverseBatch has returned and the tables are as it read them.
Traversed == queryPc = "nodes" /\ ~storeModified

\* C25: for maxDepth >= 1, traverseBatch returns one row per node id
\* reached; on the row of a node that is no seed the depth is the node's
\* shortest hop distance from the nearest seed, on the row of a seed it is at
\* least 1; every node that is no seed and lies within maxDepth hops of a
\* seed is returned.
C25_TraversalDepths ==
    (Traversed /\ maxDepth >= 1) =>
        /\ \A r1, r2 \in traversal : r1.id = r2.id => r1 = r2
        /\ \A r \in traversal :
              IF r.id \in nodeIds THEN r.depth >= 1
              ELSE r.depth = HopDistance(r.id)
        /\ \A n \in IdsOf(knowledgeNodes) \ nodeIds :
              n \in WithinHops(maxDepth) => n \in IdsOf(traversal)

\* From seed a with maxDepth 2, c is reached over b and over a direct edge:
\* its row says depth 1, and b's row says 1.
C25_Witness ==
    /\ Traversed
    /\ nodeIds = {"a"}
    /\ maxDepth = 2
    /\ Cardinality(knowledgeEdges) = 3
    /\ \E e \in knowledgeEdges : e.sourceId = "b" /\ e.targetId = "c"
    /\ \E e \in knowledgeEdges : e.sourceId = "c" /\ e.targetId = "a"
    /\ \E e \in knowledgeEdges : e.sourceId = "a" /\ e.targetId = "b"
    /\ \E r \in traversal : r.id = "c" /\ r.depth = 1
    /\ \E r \in traversal : r.id = "b" /\ r.depth = 1

\* C25 as stated: the depth on every row is the shortest hop distance of its
\* node from the nearest seed.
C25_AsStated ==
    (Traversed /\ maxDepth >= 1) =>
        /\ \A r1, r2 \in traversal : r1.id = r2.id => r1 = r2
        /\ \A r \in traversal : r.depth = HopDistance(r.id)
        /\ \A n \in IdsOf(knowledgeNodes) \ nodeIds :
              n \in WithinHops(maxDepth) => n \in IdsOf(traversal)

\* C26: for every maxDepth >= 0, no row traverseBatch returns has a depth
\* greater than maxDepth.
C26_DepthBoundAsStated ==
    Traversed => \A r \in traversal : r.depth <= maxDepth

\* traverseBatch called with maxDepth 0 has returned a row of depth 1.
C26_Divergence ==
    /\ Traversed
    /\ maxDepth = 0
    /\ \E r \in traversal : r.depth = 1 /\ r.id \notin nodeIds


\* Seeds a and b joined by one edge a -> b: the row returned for b says
\* depth 1, and b is a seed.
C25_SeedRow ==
    /\ Traversed
    /\ nodeIds = {"a", "b"}
    /\ maxDepth = 1
    /\ knowledgeEdges = { EdgeRow("a", "b", Some(10)) }
    /\ \E r \in traversal : r.id = "b" /\ r.depth = 1

\* ---- C28 ----

\* C28: whatever other requests write between the three reads of
\* getSubgraph, both endpoints of every edge it returns are among the nodes
\* it returns.
C28_ClosureUnderWritesAsStated ==
    queryPc = "done" =>
        \A e \in subgraphEdges :
            /\ \E n \in subgraphNodes : n.id = e.sourceId
            /\ \E n \in subgraphNodes : n.id = e.targetId

\* getSubgraph(["a", "d"]) on a store without d: after its node fetch
\* another request upserted node d and the edge a -> d, which the edge fetch
\* returned; no node d was returned.
C28_Divergence ==
    /\ queryPc = "done"
    /\ nodeIds = {"a", "d"}
    /\ \E e \in subgraphEdges : e.sourceId = "a" /\ e.targetId = "d"
    /\ \A n \in subgraphNodes : n.id # "d"

\* ---- C29 ----

\* Request r missed the cache and has returned after a successful save.
MissedAndSaved(r) ==
    LET q == requests[r] IN
    /\ q.pc = "done"
    /\ Made(q, "findByHash", TRUE)
    /\ q.cached = None
    /\ Made(q, "save", TRUE)

\* The cache rows of request r's key.
RowsOfKey(cache, r) == { row \in cache : row.requestHash = CacheKey(requests[r]) }

\* Two requests with one key both missed and both saved.
BothMissedAndSaved(r1, r2) ==
    /\ r1 # r2
    /\ CacheKey(requests[r1]) = CacheKey(requests[r2])
    /\ MissedAndSaved(r1)
    /\ MissedAndSaved(r2)

\* After both have finished: each made its own final completion (and its own
\* retrieval, when the plan asks for a search), there is one row for the key,
\* its response is the completion of a request that saved, and its hit_count
\* is the number of hits counted, which the saves did not change.
AfterBothSaved ==
    \A r1, r2 \in Requests :
        BothMissedAndSaved(r1, r2) =>
            /\ \A r \in {r1, r2} :
                  /\ Cardinality(Calls(requests[r], "chatCompletion:final")) = 1
                  /\ EffectivePlan(requests[r]).should_search
                        => Cardinality(Calls(requests[r], "createEmbedding")) = 1
                  /\ requests[r].finalResponse = Some(Answer(r))
            /\ Cardinality(RowsOfKey(chatbotCache, r1)) = 1
            /\ \A row \in RowsOfKey(chatbotCache, r1) :
                  /\ \E r \in Requests :
                        MissedAndSaved(r) /\ row.response = Answer(r)
                  /\ row.hitCount =
                        Cardinality({ r \in Requests :
                                        Made(requests[r], "incrementHitCount", TRUE) })

\* A save that succeeds leaves one row for its key, holding the saving
\* request's completion and the hit_count the row had (0 for a new row).
SaveStep ==
    \A r \in Requests :
        (requests[r].pc = "save" /\ requests'[r].pc = "done"
           /\ Made(requests'[r], "save", TRUE)) =>
            /\ Cardinality(RowsOfKey(chatbotCache', r)) = 1
            /\ \A new \in RowsOfKey(chatbotCache', r) :
                  /\ new.response = Answer(r)
                  /\ \A old \in RowsOfKey(chatbotCache, r) :
                        new.hitCount = old.hitCount
                  /\ RowsOfKey(chatbotCache, r) = {} => new.hitCount = 0

\* C29: when two requests with the same cache key both miss, each makes its
\* own retrieval and final completion and each saves; afterwards there is
\* exactly one row for the key, holding the completion of the later save, and
\* the saves have not changed its hit_count.
C29_ConcurrentMisses == [](AfterBothSaved) /\ [][SaveStep]_vars

\* Requests 1 and 2 both missed and saved, 2 after 1: the one row holds the
\* completion of request 2.
C29_Witness ==
    /\ BothMissedAndSaved(1, 2)
    /\ EffectivePlan(requests[1]).should_search
    /\ \E row \in chatbotCache : row.response = Answer(2) /\ row.hitCount = 0
    /\ Cardinality(chatbotCache) = 1

\* ---- C30 ----

\* The row this call's upsertDocument wrote is in the documents table.
DocumentRowWritten ==
    \E row \in documents : row.id = randomUUID(1) /\ row.content = content

\* ingestDocument rejected with the error of buildGraphFromDocument.
GraphBuildFailed ==
    /\ ingestPc = "failed"
    /\ ingestResult = Some("buildGraphFromDocument failed")

\* C30: ingestDocument writes the document row before any graph write and
\* outside any transaction: when buildGraphFromDocument then fails, the
\* caller gets its error and the document row written stays in the store.
C30_DocumentRowSurvivesGraphFailure ==
    /\ graphWrites > 0 => DocumentRowWritten
    /\ GraphBuildFailed =>
          /\ DocumentRowWritten
          /\ \E before \in InitialDocuments :
                documents = before \cup { row \in documents : row.id = randomUUID(1) }
                /\ Cardinality(documents) = Cardinality(before) + 1

\* The graph build failed after writing part of the graph; the document row
\* is in the store next to the one that was there before.
C30_Witness ==
    /\ GraphBuildFailed
    /\ graphWrites > 0
    /\ DocumentRowWritten
    /\ Cardinality(documents) = 2

\* ---- C21 ----

\* The k-th fetch call was followed by another one.
Retried(k) == k < Len(fetchCalls)

\* The statuses the transport treats as transient.
IsTransient(outcome) ==
    outcome.t = "response" /\ outcome.v \in {408, 429, 500, 503}

\* The waits made so far are the first ones of 300 ms, 1200 ms.
BackoffSchedule ==
    /\ Len(sleeps) <= 2
    /\ \A k \in 1..Len(sleeps) : sleeps[k] = <<300, 1200>>[k]
    /\ Len(fetchCalls) > 0 => Len(sleeps) \in {Len(fetchCalls) - 1, Len(fetchCalls)}

\* C21 (amended): a provider call makes at most 3 HTTP attempts, waiting
\* 300 ms and then 1200 ms between them, each with the same request body; a
\* retry is made after a response with status 408, 429 or 5xx and also after
\* a fetch that rejects (network failure or the 30 s timeout); a response
\* with any other status is returned at once, and after the third attempt
\* the last response is returned or the last rejection is thrown.
C21_RetryPolicy ==
    /\ Len(fetchCalls) <= MAX_RETRIES + 1
    /\ \A k \in 1..Len(fetchCalls) : fetchCalls[k].body = requestInit
    /\ BackoffSchedule
    /\ \A k \in 1..Len(fetchCalls) :
          Retried(k) => \/ IsTransient(fetchCalls[k].outcome)
                        \/ fetchCalls[k].outcome.t = "error"
    /\ retryPc \in {"returned", "thrown"} =>
          LET last == fetchCalls[Len(fetchCalls)].outcome
          IN  /\ retryResult = Some(last)
              /\ Len(sleeps) = Len(fetchCalls) - 1
              /\ (retryPc = "thrown") = (last.t = "error")
              /\ Len(fetchCalls) < MAX_RETRIES + 1 =>
                    last.t = "response" /\ ~IsTransient(last)

\* A rejected fetch and a 500 were retried after 300 ms and 1200 ms; the
\* third attempt's 400 was returned.
C21_Witness ==
    /\ retryPc = "returned"
    /\ Len(fetchCalls) = 3
    /\ fetchCalls[1].outcome.t = "error"
    /\ fetchCalls[2].outcome.t = "response" /\ fetchCalls[2].outcome.v = 500
    /\ fetchCalls[3].outcome.t = "response" /\ fetchCalls[3].outcome.v = 400
    /\ retryResult = Some(fetchCalls[3].outcome)
    /\ sleeps = <<300, 1200>>

\* C21 as stated: a retry is made only after a response with status 408, 429
\* or 5xx; every other failure is surfaced without a retry.
C21_AsStated ==
    \A k \in 1..Len(fetchCalls) :
        Retried(k) => IsTransient(fetchCalls[k].outcome)

\* ---- C22 ----

\* The string without its white space.
RECURSIVE WithoutWhitespace(_)
WithoutWhitespace(s) ==
    IF s = <<>> THEN <<>>
    ELSE IF s[1].ch \in Whitespace THEN WithoutWhitespace(Tail(s))
    ELSE Concat(<<s[1]>>, WithoutWhitespace(Tail(s)))

\* The strings of a list one after the other.
RECURSIVE ConcatAll(_)
ConcatAll(list) ==
    IF list = <<>> THEN <<>> ELSE Concat(list[1], ConcatAll(Tail(list)))

\* C22: every chunk splitIntoChunks returns has at most 3000 characters, also
\* when a paragraph or a single sentence is longer than that, and the chunks
\* follow the document: read one after the other they give the text, white
\* space aside.
C22_ChunksWithinBudget ==
    chunks # None =>
        /\ \A k \in 1..Len(chunks[1]) : Length(chunks[1][k]) <= 3000
        /\ WithoutWhitespace(ConcatAll(chunks[1])) = WithoutWhitespace(chunkText)

\* A paragraph of two sentences that do not fit one chunk, then a sentence of
\* 6001 characters: five chunks, none over the budget.
C22_Witness ==
    /\ chunkText = SentenceOf(1, 1500) \o <<Run(" ", 1)>> \o SentenceOf(2, 1500)
                   \o <<Run("\n", 2)>> \o SentenceOf(3, 6001)
    /\ chunks = Some(<< SentenceOf(1, 1500), SentenceOf(2, 1500),
                        <<Run("C", 3000)>>, <<Run("C", 3000)>>, <<Run(".", 1)>> >>)

\* ---- C23 ----

\* The reply has no JSON object, cannot be parsed, or fails the schema.
IsUnusable(tokens) ==
    tokens \in NoJsonReplies \cup UnparsableReplies \cup SchemaFailReplies

\* The object a usable reply carries.
ObjectOf(tokens) ==
    LET k == CHOOSE i \in 1..Len(tokens) : tokens[i].t = "members"
    IN  tokens[k].v[1]

\* What the replies from the k-th on should contribute: nothing for an
\* unusable reply, the entities (or relations) of its object otherwise.
RECURSIVE EntitiesFrom(_, _)
EntitiesFrom(contents, k) ==
    IF k > Len(contents) THEN <<>>
    ELSE (IF IsUnusable(contents[k]) THEN <<>>
          ELSE LET raw == ObjectOf(contents[k]).entities[1]
               IN  [i \in 1..Len(raw) |->
                       [name |-> raw[i].name, type |-> raw[i].type[1],
                        properties |-> raw[i].properties]])
         \o EntitiesFrom(contents, k + 1)
RECURSIVE RelationsFrom(_, _)
RelationsFrom(contents, k) ==
    IF k > Len(contents) THEN <<>>
    ELSE (IF IsUnusable(contents[k]) THEN <<>>
          ELSE ObjectOf(contents[k]).relations[1])
         \o RelationsFrom(contents, k + 1)

\* The elements of a list.
Range(list) == { list[i] : i \in 1..Len(list) }

SameEntityKey(e1, e2) ==
    toLowerCase(e1.name) = toLowerCase(e2.name) /\ e1.type = e2.type
SameRelationKey(r1, r2) ==
    /\ toLowerCase(r1.source) = toLowerCase(r2.source)
    /\ toLowerCase(r1.target) = toLowerCase(r2.target)
    /\ r1.relationType = r2.relationType

\* C23: a chunk whose reply has no JSON object, cannot be parsed or fails
\* the schema contributes no entity and no relation, and extract still
\* returns, keeping what the other chunks contributed.
C23_UnusableReplyIsSkipped ==
    /\ allEntities = EntitiesFrom(chunkReplies, 1)
    /\ allRelations = RelationsFrom(chunkReplies, 1)
    /\ Len(chunkReplies) = chunkCount =>
          /\ extractPc = "returned"
          /\ extractResult # None
          /\ \A e \in Range(EntitiesFrom(chunkReplies, 1)) :
                \E kept \in Range(extractResult[1].entities) : SameEntityKey(kept, e)
          /\ \A kept \in Range(extractResult[1].entities) :
                \E e \in Range(EntitiesFrom(chunkReplies, 1)) : SameEntityKey(kept, e)
          /\ \A r \in Range(RelationsFrom(chunkReplies, 1)) :
                \E kept \in Range(extractResult[1].relations) : SameRelationKey(kept, r)
          /\ \A kept \in Range(extractResult[1].relations) :
                \E r \in Range(RelationsFrom(chunkReplies, 1)) : SameRelationKey(kept, r)

\* The first chunk's reply fails the schema, the second one is usable: the
\* result is what the second chunk gave.
C23_Witness ==
    /\ extractPc = "returned"
    /\ chunkReplies = <<Bare(NoRelationsObject), Fenced(SecondObject)>>
    /\ Len(extractResult[1].entities) = 1
    /\ Len(extractResult[1].relations) = 2

\* ---- C24 ----

\* The positions in `list` whose element has the key of x.
EntityOccurrences(list, x) ==
    { i \in 1..Len(list) : SameEntityKey(list[i], x) }
RelationOccurrences(list, x) ==
    { i \in 1..Len(list) : SameRelationKey(list[i], x) }
Least(S) == CHOOSE i \in S : \A j \in S : i <= j

\* The members of `properties` are those of the occurrences, each key with
\* the value of the last occurrence that has it.
MergedInOrder(properties, list, occurrences) ==
    /\ \A kv \in spread(properties) :
          \E i \in occurrences :
              /\ kv \in spread(list[i].properties)
              /\ \A later \in occurrences :
                    later > i =>
                        \A own \in spread(list[later].properties) : own[1] # kv[1]
    /\ \A i \in occurrences :
          \A own \in spread(list[i].properties) :
              \E kv \in spread(properties) : kv[1] = own[1]

\* C24: extract returns one entity per (lowercased name, type), the first
\* occurrence with the properties of the later ones merged over its own in
\* chunk order, and one relation per (lowercased source, lowercased target,
\* relationType), the first occurrence as it is, weight included.
C24_Deduplication ==
    extractPc = "returned" =>
        LET entities == extractResult[1].entities
            relations == extractResult[1].relations
        IN  /\ \A e \in Range(allEntities) :
                  Cardinality(EntityOccurrences(entities, e)) = 1
            /\ \A j \in 1..Len(entities) :
                  LET occurrences == EntityOccurrences(allEntities, entities[j])
                  IN  /\ occurrences # {}
                      /\ entities[j].name = allEntities[Least(occurrences)].name
                      /\ entities[j].type = allEntities[Least(occurrences)].type
                      /\ IF Cardinality(occurrences) = 1
                         THEN entities[j].properties =
                                  allEntities[Least(occurrences)].properties
                         ELSE /\ entities[j].properties # None
                              /\ MergedInOrder(entities[j].properties,
                                               allEntities, occurrences)
            /\ \A r \in Range(allRelations) :
                  Cardinality(RelationOccurrences(relations, r)) = 1
            /\ \A j \in 1..Len(relations) :
                  LET occurrences == RelationOccurrences(allRelations, relations[j])
                  IN  /\ occurrences # {}
                      /\ relations[j] = allRelations[Least(occurrences)]

\* Aspirin/drug with dose 1, then aspirin/drug with dose 2 and form 1: one
\* entity named Aspirin with dose 2 and form 1; of the two "treats"
\* relations from aspirin to fever the first one, with weight 0.9, is kept.
C24_Witness ==
    /\ extractPc = "returned"
    /\ chunkReplies = <<Bare(FirstObject), Fenced(SecondObject)>>
    /\ \E e \in Range(extractResult[1].entities) :
          e.name = Aspirin /\ e.properties = Some(Dose2Form1)
    /\ Len(extractResult[1].entities) = 2
    /\ Len(extractResult[1].relations) = 2
    /\ extractResult[1].relations[1].weight = Some(9)

=============================================================================
